---- MODULE Spec2Model ----
(***************************************************************************)
(* Great-Games (MLB): the normalizer (Parser), the milestone extractor     *)
(* (API.processPlayerMilestones), the enrichment step and the scorer       *)
(* (Ranker, latest revision in js/mlb/utils.js) as a state machine.        *)
(*                                                                         *)
(* Conventions                                                             *)
(*  - a JavaScript object is a record; a property that is absent is a key  *)
(*    that is not in the record's DOMAIN (Has);                            *)
(*  - a sub-score (a "score multiplier (0-1)") is an integer number of     *)
(*    thousandths, 0..Unit;                                                *)
(*  - Undefined stands for a numeric value that is undefined, null or NaN: *)
(*    every comparison with it is false, as in JavaScript;                 *)
(*  - Throw stands for a call that ended in an exception.                  *)
(***************************************************************************)
EXTENDS Integers, Sequences, FiniteSets, TLC

Unit == 1000

Undefined == -1

Throw == -2

Has(r, k) == k \in DOMAIN r

\* obj.k = v on an object: the property is added or overwritten
SetField(r, k, v) == (k :> v) @@ r

Min2(a, b) == IF a <= b THEN a ELSE b

Max2(a, b) == IF a >= b THEN a ELSE b

Abs(a) == IF a < 0 THEN -a ELSE a

\* a <= b of two JavaScript numbers, either of which may be undefined/NaN
JsLe(a, b) == a # Undefined /\ b # Undefined /\ a <= b

JsGt(a, b) == a # Undefined /\ b # Undefined /\ a > b

JsGe(a, b) == a # Undefined /\ b # Undefined /\ a >= b

\* a + b and Math.abs(a - b): NaN when either is undefined
JsAdd(a, b) == IF a = Undefined \/ b = Undefined THEN Undefined ELSE a + b

\* the difference without Math.abs
JsDiff(a, b) == IF a = Undefined \/ b = Undefined THEN Undefined ELSE a - b

JsAbsDiff(a, b) ==
    IF a = Undefined \/ b = Undefined THEN Undefined
    ELSE IF a >= b THEN a - b ELSE b - a

\* side.score of a raw record: undefined while no score was reported
ScoreOf(side) == IF Has(side, "score") THEN side.score ELSE Undefined

\* x || 0 on an optional number
OrZero(x) == IF x = Undefined THEN 0 ELSE x

(***************************************************************************)
(* Parser: per-inning analytics                                            *)
(***************************************************************************)

\* one iteration that also counts a lead taken from a tie
LeadStepFromTie(st, inning, awayTeamId, homeTeamId) ==
    LET afterAway ==
            IF inning.away # Undefined
            THEN LET a == st.a + inning.away IN
                 IF a > st.h
                 THEN [st EXCEPT !.a = a,
                                 !.lc = IF st.leader # awayTeamId THEN st.lc + 1 ELSE st.lc,
                                 !.leader = awayTeamId]
                 ELSE [st EXCEPT !.a = a]
            ELSE st
    IN  IF inning.home # Undefined
        THEN LET h == afterAway.h + inning.home IN
             IF h > afterAway.a
             THEN [afterAway EXCEPT !.h = h,
                                    !.lc = IF afterAway.leader # homeTeamId
                                           THEN afterAway.lc + 1 ELSE afterAway.lc,
                                    !.leader = homeTeamId]
             ELSE IF h = afterAway.a
                  THEN [afterAway EXCEPT !.h = h, !.leader = Undefined]
                  ELSE [afterAway EXCEPT !.h = h]
        ELSE afterAway

\* one iteration of the loop of countLeadChanges; st = [lc, a, h, leader]
LeadStep(st, inning, awayTeamId, homeTeamId) ==
    LET afterAway ==
            IF inning.away # Undefined
            THEN LET a == st.a + inning.away IN
                 IF a > st.h
                 THEN [st EXCEPT !.a = a,
                                 !.lc = IF st.leader # awayTeamId /\ st.leader # Undefined
                                        THEN st.lc + 1 ELSE st.lc,
                                 !.leader = awayTeamId]
                 ELSE [st EXCEPT !.a = a]
            ELSE st
    IN  IF inning.home # Undefined
        THEN LET h == afterAway.h + inning.home IN
             IF h > afterAway.a
             THEN [afterAway EXCEPT !.h = h,
                                    !.lc = IF afterAway.leader # homeTeamId
                                              /\ afterAway.leader # Undefined
                                           THEN afterAway.lc + 1 ELSE afterAway.lc,
                                    !.leader = homeTeamId]
             ELSE IF h = afterAway.a
                  THEN [afterAway EXCEPT !.h = h, !.leader = Undefined]
                  ELSE [afterAway EXCEPT !.h = h]
        ELSE afterAway

RECURSIVE LeadFold(_, _, _, _, _)
LeadFold(innings, i, st, awayTeamId, homeTeamId) ==
    IF i > Len(innings) THEN st
    ELSE LeadFold(innings, i + 1,
                  LeadStep(st, innings[i], awayTeamId, homeTeamId),
                  awayTeamId, homeTeamId)

\* countLeadChanges counting the lead held at the end as one more change
countLeadsTaken(innings, awayTeamId, homeTeamId) ==
    IF Len(innings) = 0 THEN 0
    ELSE LET st == LeadFold(innings, 1, [lc |-> 0, a |-> 0, h |-> 0, leader |-> Undefined],
                            awayTeamId, homeTeamId)
         IN  IF st.leader # Undefined THEN st.lc + 1 ELSE st.lc

countLeadChanges(innings, awayTeamId, homeTeamId) ==
    IF Len(innings) = 0 THEN 0
    ELSE LeadFold(innings, 1, [lc |-> 0, a |-> 0, h |-> 0, leader |-> Undefined],
                  awayTeamId, homeTeamId).lc

\* one iteration of findLastLeadChangeInning; st = [last, a, h, prev]
LastStep(st, inning) ==
    LET a == st.a + OrZero(inning.away)
        h == st.h + OrZero(inning.home)
        currentLeader == IF a > h THEN "away" ELSE IF h > a THEN "home" ELSE "tie"
    IN  [last |-> IF currentLeader # st.prev /\ currentLeader # "tie"
                  THEN inning.num ELSE st.last,
         a |-> a, h |-> h, prev |-> currentLeader]

RECURSIVE LastFold(_, _, _)
LastFold(innings, i, st) ==
    IF i > Len(innings) THEN st
    ELSE LastFold(innings, i + 1, LastStep(st, innings[i]))

findLastLeadChangeInning(gameData) ==
    IF ~Has(gameData, "linescore") THEN 0
    ELSE LastFold(gameData.linescore.innings, 1,
                  [last |-> 0, a |-> 0, h |-> 0, prev |-> "null"]).last

\* isWalkoffGame without the test on the number of the last inning
isWalkoffAnyInning(gameData) ==
    LET innings == IF Has(gameData, "linescore") THEN gameData.linescore.innings ELSE <<>>
    IN  IF Len(innings) = 0 THEN FALSE
        ELSE LET lastInning == innings[Len(innings)]
                 awayScore == ScoreOf(gameData.teams.away)
                 homeScore == ScoreOf(gameData.teams.home)
             IN  IF JsLe(homeScore, awayScore) THEN FALSE
                 ELSE /\ homeScore # Undefined
                      /\ JsLe(homeScore - OrZero(lastInning.home), awayScore)

isWalkoffGame(gameData) ==
    LET innings == IF Has(gameData, "linescore") THEN gameData.linescore.innings ELSE <<>>
    IN  IF Len(innings) = 0 THEN FALSE
        ELSE LET lastInning == innings[Len(innings)]
                 awayScore == ScoreOf(gameData.teams.away)
                 homeScore == ScoreOf(gameData.teams.home)
             IN  IF JsLe(homeScore, awayScore) THEN FALSE
                 ELSE IF lastInning.num < 9 THEN FALSE
                 ELSE /\ homeScore # Undefined
                      /\ JsLe(homeScore - OrZero(lastInning.home), awayScore)

\* one iteration of the loop of findMaximumLeadAndComeback; st = [a, h, maxLead, team]
MaxLeadStep(st, inning, awayTeamId, homeTeamId) ==
    LET a == IF inning.away # Undefined THEN st.a + inning.away ELSE st.a
        s1 == IF a > st.h /\ a - st.h > st.maxLead
              THEN [st EXCEPT !.a = a, !.maxLead = a - st.h, !.team = awayTeamId]
              ELSE [st EXCEPT !.a = a]
        h == IF inning.home # Undefined THEN s1.h + inning.home ELSE s1.h
    IN  IF h > s1.a /\ h - s1.a > s1.maxLead
        THEN [s1 EXCEPT !.h = h, !.maxLead = h - s1.a, !.team = homeTeamId]
        ELSE [s1 EXCEPT !.h = h]

RECURSIVE MaxLeadFold(_, _, _, _, _)
MaxLeadFold(innings, i, st, awayTeamId, homeTeamId) ==
    IF i > Len(innings) THEN st
    ELSE MaxLeadFold(innings, i + 1,
                     MaxLeadStep(st, innings[i], awayTeamId, homeTeamId),
                     awayTeamId, homeTeamId)

\* findMaximumLeadAndComeback without the test on the team that held the lead
findMaximumLeadAnyHolder(innings, awayTeamId, homeTeamId, finalAwayScore, finalHomeScore) ==
    IF Len(innings) = 0 THEN [maxLead |-> 0, comebackTeamId |-> Undefined]
    ELSE LET st == MaxLeadFold(innings, 1,
                               [a |-> 0, h |-> 0, maxLead |-> 0, team |-> Undefined],
                               awayTeamId, homeTeamId)
         IN  [maxLead |-> st.maxLead,
              comebackTeamId |->
                  IF st.maxLead >= 3
                  THEN IF JsGt(finalAwayScore, finalHomeScore) THEN awayTeamId
                       ELSE IF JsGt(finalHomeScore, finalAwayScore) THEN homeTeamId
                       ELSE Undefined
                  ELSE Undefined]

findMaximumLeadAndComeback(innings, awayTeamId, homeTeamId, finalAwayScore, finalHomeScore) ==
    IF Len(innings) = 0 THEN [maxLead |-> 0, comebackTeamId |-> Undefined]
    ELSE LET st == MaxLeadFold(innings, 1,
                               [a |-> 0, h |-> 0, maxLead |-> 0, team |-> Undefined],
                               awayTeamId, homeTeamId)
             awayWon == JsGt(finalAwayScore, finalHomeScore)
             homeWon == JsGt(finalHomeScore, finalAwayScore)
         IN  [maxLead |-> st.maxLead,
              comebackTeamId |->
                  IF st.maxLead >= 3
                  THEN IF awayWon /\ st.team = homeTeamId THEN awayTeamId
                       ELSE IF homeWon /\ st.team = awayTeamId THEN homeTeamId
                       ELSE Undefined
                  ELSE Undefined]

(***************************************************************************)
(* Parser: normalization of one raw schedule record                        *)
(***************************************************************************)

\* game.linescore?.innings || []
RawInnings(game) == IF Has(game, "linescore") THEN game.linescore.innings ELSE <<>>

\* game.linescore?.teams?.[side]?.[stat] || 0
LinescoreStat(game, side, stat) ==
    IF Has(game, "linescore") THEN OrZero(game.linescore.teams[side][stat]) ELSE 0

\* processGameData and processFutureGame read game.teams.away.team.id: a TypeError
\* when teams, a side or a side's team is missing
TeamsComplete(game) ==
    /\ Has(game, "teams")
    /\ \A side \in {"away", "home"} :
          Has(game.teams, side) /\ Has(game.teams[side], "team")

\* the innings mapped last to first
inningScoresReversed(innings) ==
    [i \in 1..Len(innings) |->
        [inningNumber |-> innings[Len(innings) + 1 - i].num,
         away |-> OrZero(innings[Len(innings) + 1 - i].away),
         home |-> OrZero(innings[Len(innings) + 1 - i].home)]]

inningScoresOf(innings) ==
    [i \in 1..Len(innings) |->
        [inningNumber |-> innings[i].num,
         away |-> OrZero(innings[i].away),
         home |-> OrZero(innings[i].home)]]

\* the object literal returned by processGameData (TeamsComplete(game) holds)
processGameData(game) ==
    LET awayTeam == game.teams.away
        homeTeam == game.teams.home
        innings == RawInnings(game)
        totalRuns == JsAdd(ScoreOf(awayTeam), ScoreOf(homeTeam))
        runDifference == JsAbsDiff(ScoreOf(awayTeam), ScoreOf(homeTeam))
        ml == findMaximumLeadAndComeback(innings, awayTeam.team.id, homeTeam.team.id,
                                         ScoreOf(awayTeam), ScoreOf(homeTeam))
    IN  [id |-> game.gamePk,
         date |-> game.gameDate,
         status |-> game.status.detailedState,
         awayTeam |-> [id |-> awayTeam.team.id,
                       name |-> awayTeam.team.name,
                       score |-> ScoreOf(awayTeam),
                       hits |-> LinescoreStat(game, "away", "hits"),
                       errors |-> LinescoreStat(game, "away", "errors")],
         homeTeam |-> [id |-> homeTeam.team.id,
                       name |-> homeTeam.team.name,
                       score |-> ScoreOf(homeTeam),
                       hits |-> LinescoreStat(game, "home", "hits"),
                       errors |-> LinescoreStat(game, "home", "errors")],
         innings |-> Len(innings),
         inningScores |-> inningScoresOf(innings),
         isExtraInnings |-> Len(innings) > 9,
         leadChanges |-> countLeadChanges(innings, awayTeam.team.id, homeTeam.team.id),
         totalRuns |-> totalRuns,
         runDifference |-> runDifference,
         isCloseGame |-> JsLe(runDifference, 2),
         isHighScoring |-> JsGe(totalRuns, 10),
         lastLeadChangeInning |-> findLastLeadChangeInning(game),
         isWalkoff |-> isWalkoffGame(game),
         inning |-> IF Has(game, "inning") /\ game.inning # 0 THEN game.inning ELSE 9,
         maxLead |-> ml.maxLead,
         hasComebackWin |-> ml.comebackTeamId # Undefined,
         comebackTeamId |-> ml.comebackTeamId]

\* a parsable gameDate is [month, day, hour] (UTC); anything else has no day
ValidDate(d) == Has(d, "day")

\* the object literal returned by processFutureGame (TeamsComplete(game) holds)
processFutureGame(game) ==
    [id |-> game.gamePk,
     date |-> game.gameDate,
     status |-> game.status.detailedState,
     gameTime |-> IF ValidDate(game.gameDate) THEN game.gameDate.hour ELSE Undefined,
     isFuture |-> TRUE,
     awayTeam |-> [id |-> game.teams.away.team.id, name |-> game.teams.away.team.name],
     homeTeam |-> [id |-> game.teams.home.team.id, name |-> game.teams.home.team.name]]

(***************************************************************************)
(* Parser.deduplicateGames                                                 *)
(***************************************************************************)

\* new Date(game.date).toISOString().split('T')[0]: the UTC calendar day
IsoDay(d) == <<d.month, d.day>>

DedupKey(game) ==
    <<IsoDay(game.date),
      Min2(game.awayTeam.id, game.homeTeam.id),
      Max2(game.awayTeam.id, game.homeTeam.id)>>

\* game.totalRuns: undefined on a future game
TotalRunsOf(game) == IF Has(game, "totalRuns") THEN game.totalRuns ELSE Undefined

\* index of key in the insertion-ordered object gamesByDateAndTeams, 0 when absent
KeyIndex(entries, key) ==
    IF \E i \in 1..Len(entries) : entries[i].key = key
    THEN CHOOSE i \in 1..Len(entries) : entries[i].key = key
    ELSE 0

\* the body of games.forEach in deduplicateGames
DedupStep(entries, game) ==
    LET key == DedupKey(game)
        at == KeyIndex(entries, key)
    IN  IF at = 0 THEN Append(entries, [key |-> key, game |-> game])
        ELSE IF JsGt(TotalRunsOf(game), TotalRunsOf(entries[at].game))
             THEN [entries EXCEPT ![at].game = game]
             ELSE entries

RECURSIVE DedupFold(_, _, _)
DedupFold(games, i, entries) ==
    IF i > Len(games) THEN entries
    ELSE DedupFold(games, i + 1, DedupStep(entries, games[i]))

\* toISOString throws a RangeError on an invalid date: [threw, games]
deduplicateGames(games) ==
    IF \E i \in 1..Len(games) : ~ValidDate(games[i].date)
    THEN [threw |-> TRUE, games |-> <<>>]
    ELSE LET entries == DedupFold(games, 1, <<>>)
         IN  [threw |-> FALSE,
              games |-> [i \in 1..Len(entries) |-> entries[i].game]]

(***************************************************************************)
(* Parser.processGames / processFutureGames                                *)
(***************************************************************************)

RECURSIVE Flatten(_)
Flatten(dates) ==
    IF Len(dates) = 0 THEN <<>> ELSE Head(dates).games \o Flatten(Tail(dates))

\* the games pushed by the two nested forEach loops, in order: the records whose
\* abstractGameState qualifies and whose processing did not throw (try/catch)
RECURSIVE Collect(_, _, _)
Collect(raws, states, future) ==
    IF Len(raws) = 0 THEN <<>>
    ELSE LET game == Head(raws)
             rest == Collect(Tail(raws), states, future)
         IN  IF game.status.abstractGameState \in states /\ TeamsComplete(game)
             THEN <<IF future THEN processFutureGame(game) ELSE processGameData(game)>> \o rest
             ELSE rest

\* game.status.abstractGameState is read outside the try block
StatusReadable(raws) == \A i \in 1..Len(raws) : Has(raws[i], "status")

ProcessWith(apiData, states, future) ==
    IF Len(apiData.dates) = 0 THEN [threw |-> FALSE, games |-> <<>>]
    ELSE LET raws == Flatten(apiData.dates)
         IN  IF ~StatusReadable(raws) THEN [threw |-> TRUE, games |-> <<>>]
             ELSE deduplicateGames(Collect(raws, states, future))

\* processGames accepting games in progress as well
processGamesInProgress(apiData) == ProcessWith(apiData, {"Final", "Live"}, FALSE)

processGames(apiData) == ProcessWith(apiData, {"Final"}, FALSE)

processFutureGames(apiData) == ProcessWith(apiData, {"Preview", "Scheduled"}, TRUE)

(***************************************************************************)
(* Ranker (js/mlb/utils.js): the factor sub-scores, in thousandths         *)
(***************************************************************************)

Factors ==
    {"closeGames", "leadChanges", "lateGameDrama", "comebackWins", "extraInnings",
     "highScoring", "teamRankings", "hits", "errors", "scoringDistribution",
     "rivalryGame", "playerMilestones", "seasonalContext"}

\* Ranker.weights, keyed by the option flag that enables the factor
weights(f) ==
    CASE f = "closeGames" -> 20
      [] f = "leadChanges" -> 15
      [] f = "lateGameDrama" -> 20
      [] f = "comebackWins" -> 10
      [] f = "extraInnings" -> 10
      [] f = "highScoring" -> 10
      [] f = "teamRankings" -> 5
      [] f = "hits" -> 5
      [] f = "errors" -> 5
      [] f = "scoringDistribution" -> 10
      [] f = "rivalryGame" -> 10
      [] f = "playerMilestones" -> 5
      [] f = "seasonalContext" -> 5

\* NaN (Undefined) when runDifference is NaN: Math.max(0, NaN)
calculateCloseGameScore(game) ==
    CASE game.runDifference = Undefined -> Undefined
      [] game.runDifference = 0 -> 1000
      [] game.runDifference = 1 -> 850
      [] game.runDifference = 2 -> 650
      [] game.runDifference = 3 -> 400
      [] OTHER -> Max2(0, 200 - (game.runDifference - 4) * 100)

calculateLeadChangesScore(game) ==
    LET base == CASE game.leadChanges >= 5 -> 1000
                  [] game.leadChanges = 4 -> 800
                  [] game.leadChanges = 3 -> 600
                  [] game.leadChanges = 2 -> 400
                  [] game.leadChanges = 1 -> 200
                  [] OTHER -> 0
        score == IF game.lastLeadChangeInning >= 7 THEN (base * 12) \div 10 ELSE base
    IN  Min2(Unit, score)

calculateLateGameDramaScore(game) ==
    LET close == IF JsLe(game.runDifference, 1) /\ game.inning >= 8 THEN 700
                 ELSE IF JsLe(game.runDifference, 2) /\ game.inning >= 7 THEN 400
                 ELSE 0
        late == IF game.lastLeadChangeInning >= 8 THEN 500
                ELSE IF game.lastLeadChangeInning >= 7 THEN 300
                ELSE 0
        walkoff == IF game.isWalkoff THEN 500 ELSE 0
    IN  Min2(Unit, close + late + walkoff)

calculateExtraInningsScore(game) ==
    LET extraInnings == game.innings - 9
    IN  CASE extraInnings >= 5 -> 1000
          [] extraInnings = 4 -> 800
          [] extraInnings = 3 -> 600
          [] extraInnings = 2 -> 400
          [] extraInnings = 1 -> 200
          [] OTHER -> 0

\* team.runs: the normalized sides carry score, hits and errors, and no runs
TeamRuns(team) == IF Has(team, "runs") THEN team.runs ELSE Undefined

calculateHighScoringScore(game) ==
    LET base == IF game.totalRuns >= 15 THEN 1000
                ELSE IF game.totalRuns >= 12 THEN 700
                ELSE IF game.totalRuns >= 10 THEN 500
                ELSE IF game.totalRuns >= 8 THEN 300
                ELSE IF game.totalRuns >= 6 THEN 100
                ELSE 0
        hr == TeamRuns(game.homeTeam)
        ar == TeamRuns(game.awayTeam)
        runDiff == IF hr = Undefined \/ ar = Undefined THEN Undefined ELSE Abs(hr - ar)
        score == IF game.totalRuns >= 10 /\ JsLe(runDiff, 2) THEN (base * 12) \div 10 ELSE base
    IN  Min2(Unit, score)

\* team.ranking?.divisionRank || 5
RankOrFive(team) ==
    IF Has(team, "ranking") /\ team.ranking.divisionRank # 0
    THEN team.ranking.divisionRank ELSE 5

calculateRankingsScore(game) ==
    LET awayRank == RankOrFive(game.awayTeam)
        homeRank == RankOrFive(game.homeTeam)
        \* (5 - (awayRank + homeRank) / 2) / 4, in thousandths
        base == Max2(0, (10 - awayRank - homeRank) * 125)
        bonus == IF awayRank <= 2 /\ homeRank <= 2 THEN 200
                 ELSE IF awayRank <= 3 /\ homeRank <= 3 THEN 100
                 ELSE 0
    IN  Min2(Unit, base + bonus)

calculateHitsScore(game) ==
    LET totalHits == game.awayTeam.hits + game.homeTeam.hits
    IN  IF totalHits >= 25 THEN 1000
        ELSE IF totalHits >= 20 THEN 800
        ELSE IF totalHits >= 15 THEN 600
        ELSE IF totalHits >= 10 THEN 400
        ELSE IF totalHits >= 5 THEN 200
        ELSE 0

calculateErrorsScore(game) ==
    LET totalErrors == game.awayTeam.errors + game.homeTeam.errors
    IN  CASE totalErrors >= 4 -> 1000
          [] totalErrors = 3 -> 750
          [] totalErrors = 2 -> 500
          [] totalErrors = 1 -> 250
          [] OTHER -> 0

calculateComebackScore(game) ==
    IF ~game.hasComebackWin THEN 0
    ELSE IF game.maxLead >= 6 THEN 1000
    ELSE IF game.maxLead >= 5 THEN 850
    ELSE IF game.maxLead >= 4 THEN 700
    ELSE IF game.maxLead >= 3 THEN 500
    ELSE 0

\* inningsWithScoring / game.innings >= t / 10; 0 / 0 is NaN and passes no test
calculateScoringDistributionScore(game) ==
    LET n == Cardinality({i \in 1..Len(game.inningScores) :
                             game.inningScores[i].away > 0 \/ game.inningScores[i].home > 0})
        total == game.innings
        AtLeast(t) == total > 0 /\ 10 * n >= t * total
    IN  IF AtLeast(9) THEN 1000
        ELSE IF AtLeast(8) THEN 900
        ELSE IF AtLeast(7) THEN 800
        ELSE IF AtLeast(6) THEN 650
        ELSE IF AtLeast(5) THEN 500
        ELSE IF AtLeast(4) THEN 300
        ELSE IF AtLeast(3) THEN 200
        ELSE 100

(***************************************************************************)
(* API.processPlayerMilestones (js/mlb/api.js)                             *)
(* null is the empty sequence, an object a one-element sequence            *)
(***************************************************************************)

EmptySideMilestones ==
    [hasMilestones |-> FALSE, noHitter |-> FALSE, perfectGame |-> FALSE,
     cycleHitter |-> <<>>, multiHomeRunHitters |-> <<>>, highRbiHitters |-> <<>>,
     highStrikeoutPitcher |-> <<>>]

\* the same test without the fielding errors of the pitching side
PitchingFeatsAnyFielding(m, team, opposingTeam) ==
    IF Has(opposingTeam, "teamStats") /\ opposingTeam.teamStats.batting.hits = 0
    THEN LET battingStats == opposingTeam.teamStats.batting
             perfect == /\ battingStats.baseOnBalls = 0
                        /\ battingStats.hitByPitch = 0
         IN  [m EXCEPT !.noHitter = TRUE, !.hasMilestones = TRUE,
                       !.perfectGame = perfect]
    ELSE m

\* opposingTeam?.teamStats?.batting?.hits === 0 and the perfect-game test under it
PitchingFeats(m, team, opposingTeam) ==
    IF Has(opposingTeam, "teamStats") /\ opposingTeam.teamStats.batting.hits = 0
    THEN LET battingStats == opposingTeam.teamStats.batting
             perfect == /\ battingStats.baseOnBalls = 0
                        /\ battingStats.hitByPitch = 0
                        /\ Has(team, "teamStats")
                        /\ team.teamStats.fielding.errors = 0
         IN  [m EXCEPT !.noHitter = TRUE, !.hasMilestones = TRUE,
                       !.perfectGame = perfect]
    ELSE m

\* the hitting half of the callback of Object.values(team.players).forEach
BattingStep(m, player) ==
    IF ~Has(player.stats, "batting") THEN m
    ELSE LET b == player.stats.batting
             m1 == IF b.homeRuns >= 2
                   THEN [m EXCEPT !.multiHomeRunHitters =
                                      Append(@, [id |-> player.person.id, homeRuns |-> b.homeRuns]),
                                  !.hasMilestones = TRUE]
                   ELSE m
             m2 == IF b.rbi >= 5
                   THEN [m1 EXCEPT !.highRbiHitters =
                                       Append(@, [id |-> player.person.id, rbi |-> b.rbi]),
                                   !.hasMilestones = TRUE]
                   ELSE m1
         IN  IF b.singles > 0 /\ b.doubles > 0 /\ b.triples > 0 /\ b.homeRuns > 0
             THEN [m2 EXCEPT !.cycleHitter = <<[id |-> player.person.id]>>,
                             !.hasMilestones = TRUE]
             ELSE m2

\* the pitching half of the same callback
PitchingStep(m, player) ==
    IF Has(player.stats, "pitching") /\ player.stats.pitching.strikeOuts >= 10
    THEN [m EXCEPT !.highStrikeoutPitcher =
                       <<[id |-> player.person.id,
                          strikeOuts |-> player.stats.pitching.strikeOuts]>>,
                   !.hasMilestones = TRUE]
    ELSE m

RECURSIVE PlayersFold(_, _, _)
PlayersFold(players, i, m) ==
    IF i > Len(players) THEN m
    ELSE PlayersFold(players, i + 1, PitchingStep(BattingStep(m, players[i]), players[i]))

SideMilestones(team, opposingTeam) ==
    PlayersFold(team.players, 1, PitchingFeats(EmptySideMilestones, team, opposingTeam))

processPlayerMilestones(boxscoreData) ==
    IF ~Has(boxscoreData, "teams")
    THEN [away |-> EmptySideMilestones, home |-> EmptySideMilestones]
    ELSE [away |-> SideMilestones(boxscoreData.teams.away, boxscoreData.teams.home),
          home |-> SideMilestones(boxscoreData.teams.home, boxscoreData.teams.away)]

(***************************************************************************)
(* Ranker: the factors that read enrichment data                           *)
(***************************************************************************)

\* the static fields Ranker.rivalryData / iconicRivalries / recentRivalries;
\* before the load completes all three are undefined
NoRivalryData == [loaded |-> FALSE, iconicRivalries |-> {}, recentRivalries |-> {}]

\* what calculateRivalryScore returns; the load it starts is in the actions
calculateRivalryScore(game, rk) ==
    LET awayTeam == game.awayTeam.name
        homeTeam == game.homeTeam.name
        Match(list) == \E teams \in list : awayTeam \in teams /\ homeTeam \in teams
    IN  IF rk.loaded /\ Match(rk.iconicRivalries) THEN 1000
        ELSE IF rk.loaded /\ Match(rk.recentRivalries) THEN 700
        ELSE 0

RECURSIVE SeqMax(_, _, _, _)
SeqMax(s, field, i, best) ==
    IF i > Len(s) THEN best
    ELSE SeqMax(s, field, i + 1, IF s[i][field] > best THEN s[i][field] ELSE best)

\* m.k of a milestones side that may be the stub {hasMilestones: false}
Truthy(m, k) == Has(m, k) /\ m[k] = TRUE

NonNull(m, k) == Has(m, k) /\ Len(m[k]) > 0

\* the body of `if (game.playerMilestones)` after the two early returns;
\* reading .length of a list the stub does not have is a TypeError
MilestonesDetail(a, h) ==
    IF ~(Has(a, "multiHomeRunHitters") /\ Has(h, "multiHomeRunHitters")
         /\ Has(a, "highRbiHitters") /\ Has(h, "highRbiHitters"))
    THEN Throw
    ELSE LET s0 == IF NonNull(a, "cycleHitter") \/ NonNull(h, "cycleHitter") THEN 900 ELSE 0
             hrs == a.multiHomeRunHitters \o h.multiHomeRunHitters
             maxHRs == SeqMax(hrs, "homeRuns", 1, 2)
             s1 == IF Len(hrs) = 0 THEN s0
                   ELSE IF maxHRs >= 4 THEN Max2(s0, 900)
                   ELSE IF maxHRs = 3 THEN Max2(s0, 800)
                   ELSE IF Len(hrs) > 1 THEN Max2(s0, 700)
                   ELSE Max2(s0, 600)
             rbis == a.highRbiHitters \o h.highRbiHitters
             maxRBIs == SeqMax(rbis, "rbi", 1, 5)
             s2 == IF Len(rbis) = 0 THEN s1
                   ELSE IF maxRBIs >= 8 THEN Max2(s1, 850)
                   ELSE IF maxRBIs >= 7 THEN Max2(s1, 750)
                   ELSE IF maxRBIs >= 6 THEN Max2(s1, 650)
                   ELSE Max2(s1, 550)
             awayKs == IF NonNull(a, "highStrikeoutPitcher")
                       THEN a.highStrikeoutPitcher[1].strikeOuts ELSE 0
             homeKs == IF NonNull(h, "highStrikeoutPitcher")
                       THEN h.highStrikeoutPitcher[1].strikeOuts ELSE 0
             maxKs == Max2(awayKs, homeKs)
         IN  IF ~(NonNull(a, "highStrikeoutPitcher") \/ NonNull(h, "highStrikeoutPitcher"))
             THEN s2
             ELSE IF maxKs >= 15 THEN Max2(s2, 900)
             ELSE IF maxKs >= 13 THEN Max2(s2, 800)
             ELSE IF maxKs >= 11 THEN Max2(s2, 700)
             ELSE Max2(s2, 600)

\* a sub-score in thousandths, or Throw
calculatePlayerMilestonesScore(game) ==
    IF Has(game, "playerMilestones")
    THEN LET a == game.playerMilestones.away
             h == game.playerMilestones.home
         IN  IF Truthy(a, "perfectGame") \/ Truthy(h, "perfectGame") THEN 1000
             ELSE IF Truthy(a, "noHitter") \/ Truthy(h, "noHitter") THEN 950
             ELSE MilestonesDetail(a, h)
    ELSE IF game.awayTeam.hits = 0 \/ game.homeTeam.hits = 0 THEN 1000
    ELSE 0

(***************************************************************************)
(* API.processTeamRankings / processDetailedStandings and the seasonal     *)
(* factor. A games-back style value is a number, or Undefined for a        *)
(* string such as "-" or "E" that compares as NaN.                         *)
(***************************************************************************)

\* Utils.formatDivisionName
formatDivisionName(divisionName) ==
    CASE divisionName = "" -> "Unknown Division"
      [] divisionName = "American League East" -> "AL East"
      [] divisionName = "American League West" -> "AL West"
      [] divisionName = "National League East" -> "NL East"
      [] OTHER -> divisionName

\* x || 0 on a property that may be absent
PropOrZero(r, k) == IF Has(r, k) THEN r[k] ELSE 0

AllTeamRecords(standingsData) ==
    UNION {{[rec |-> standingsData.records[i], tr |-> standingsData.records[i].teamRecords[j]] :
               j \in 1..Len(standingsData.records[i].teamRecords)} :
           i \in 1..Len(standingsData.records)}

\* the object built for one teamRecord by processTeamRankings
TeamRanking(rec, tr) ==
    [divisionRank |-> tr.divisionRank,
     divisionName |-> formatDivisionName(rec.division),
     gamesBack |-> PropOrZero(tr, "gamesBack")]

\* the object built for one teamRecord by processDetailedStandings
DetailedRanking(rec, tr) ==
    [divisionRank |-> tr.divisionRank,
     divisionName |-> formatDivisionName(rec.division),
     gamesBack |-> PropOrZero(tr, "gamesBack"),
     wildCardRank |-> PropOrZero(tr, "wildCardRank"),
     wildCardGamesBack |-> PropOrZero(tr, "wildCardGamesBack"),
     eliminationNumber |-> PropOrZero(tr, "eliminationNumber"),
     isInFirstPlace |-> tr.divisionRank = 1,
     isInWildCard |-> Has(tr, "wildCardRank") /\ tr.wildCardRank <= 3]

\* team id -> ranking; team ids are unique across the divisions of a payload
processTeamRankings(standingsData) ==
    LET all == AllTeamRecords(standingsData)
    IN  [id \in {x.tr.team : x \in all} |->
            LET x == CHOOSE y \in all : y.tr.team = id IN TeamRanking(x.rec, x.tr)]

processDetailedStandings(standingsData) ==
    LET all == AllTeamRecords(standingsData)
    IN  [id \in {x.tr.team : x \in all} |->
            LET x == CHOOSE y \in all : y.tr.team = id IN DetailedRanking(x.rec, x.tr)]

\* new Date(game.date).getMonth() >= 8
IsLateSeason(game) == ValidDate(game.date) /\ game.date.month >= 8

\* team.ranking?.gamesBack <= 5
InContention(team) ==
    Has(team, "ranking") /\ Has(team.ranking, "gamesBack") /\ JsLe(team.ranking.gamesBack, 5)

\* team.ranking?.divisionName
BasicDivision(team) ==
    IF Has(team, "ranking") /\ Has(team.ranking, "divisionName")
    THEN team.ranking.divisionName ELSE "undefined"

SeasonalDetailed(game, late) ==
    LET a == game.awayTeam.detailedRanking
        h == game.homeTeam.detailedRanking
        lateBonus == IF late THEN 200 ELSE 0
        leaders == IF a.isInFirstPlace /\ h.isInFirstPlace THEN 700 + lateBonus ELSE 0
        isWildCardBattle == /\ (a.isInWildCard \/ JsLe(a.wildCardGamesBack, 5))
                            /\ (h.isInWildCard \/ JsLe(h.wildCardGamesBack, 5))
        wildCard == IF isWildCardBattle THEN 500 + lateBonus ELSE 0
        \* Math.min of two parseFloat results: NaN when either is
        divisionGamesBack == IF a.gamesBack = Undefined \/ h.gamesBack = Undefined
                             THEN Undefined ELSE Min2(a.gamesBack, h.gamesBack)
        division == IF a.divisionName # h.divisionName THEN 0
                    ELSE IF JsLe(divisionGamesBack, 2) THEN 600 + lateBonus
                    ELSE IF JsLe(divisionGamesBack, 5) THEN 400 + lateBonus
                    ELSE 0
        elimination == IF late /\ (JsLe(a.eliminationNumber, 1) \/ JsLe(h.eliminationNumber, 1))
                       THEN 800 ELSE 0
    IN  leaders + wildCard + division + elimination

SeasonalBasic(game, late) ==
    LET both == InContention(game.awayTeam) /\ InContention(game.homeTeam)
        division == IF BasicDivision(game.awayTeam) = BasicDivision(game.homeTeam) /\ both
                    THEN 700 + (IF late THEN 300 ELSE 0) ELSE 0
        wildCard == IF both THEN 500 + (IF late THEN 200 ELSE 0) ELSE 0
    IN  division + wildCard

calculateSeasonalContextScore(game) ==
    LET hasDetailedRankings ==
            Has(game.awayTeam, "detailedRanking") /\ Has(game.homeTeam, "detailedRanking")
    IN  Min2(Unit, IF hasDetailedRankings
                   THEN SeasonalDetailed(game, IsLateSeason(game))
                   ELSE SeasonalBasic(game, IsLateSeason(game)))

(***************************************************************************)
(* Ranker.calculateGameScore and Ranker.rankGames                          *)
(***************************************************************************)

\* the sub-score of the factor enabled by flag f (thousandths, or Throw)
SubScore(f, game, rk) ==
    CASE f = "closeGames" -> calculateCloseGameScore(game)
      [] f = "leadChanges" -> calculateLeadChangesScore(game)
      [] f = "lateGameDrama" -> calculateLateGameDramaScore(game)
      [] f = "comebackWins" -> calculateComebackScore(game)
      [] f = "extraInnings" -> calculateExtraInningsScore(game)
      [] f = "highScoring" -> calculateHighScoringScore(game)
      [] f = "teamRankings" -> calculateRankingsScore(game)
      [] f = "hits" -> calculateHitsScore(game)
      [] f = "errors" -> calculateErrorsScore(game)
      [] f = "scoringDistribution" -> calculateScoringDistributionScore(game)
      [] f = "rivalryGame" -> calculateRivalryScore(game, rk)
      [] f = "playerMilestones" -> calculatePlayerMilestonesScore(game)
      [] f = "seasonalContext" -> calculateSeasonalContextScore(game)

\* every set flag counted, extra innings also on a nine-inning game
AppliedWhenSet(game, options) == Factors \cap options

\* the factors whose `if` body runs: the flag is set and, for extra innings,
\* the game went to extra innings
Applied(game, options) ==
    {f \in Factors \cap options : f = "extraInnings" => game.isExtraInnings}

\* the sum of fn over the set S
RECURSIVE SumOver(_, _)
SumOver(S, fn) ==
    IF S = {} THEN 0 ELSE LET x == CHOOSE y \in S : TRUE IN fn[x] + SumOver(S \ {x}, fn)

\* Math.round(num / den): to the nearest integer, halves up
RoundDiv(num, den) == (2 * num + den) \div (2 * den)

\* the earlier revision (src/js/mlb/ranker.js): the weighted sum itself, capped
\* at 100 and not divided by the weights of the enabled factors
calculateGameScoreCapped(game, options, rk) ==
    LET on == Applied(game, options)
        sub == [f \in on |-> SubScore(f, game, rk)]
    IN  IF \E f \in on : sub[f] = Throw THEN Throw
        ELSE IF \E f \in on : sub[f] = Undefined THEN Undefined
        ELSE Min2(100, RoundDiv(SumOver(on, [f \in on |-> sub[f] * weights(f)]), Unit))

\* an integer 0..100, Throw when the milestones factor throws, or Undefined
\* (NaN) when a sub-score is NaN; options is the set of flags that are true
calculateGameScore(game, options, rk) ==
    LET on == Applied(game, options)
        sub == [f \in on |-> SubScore(f, game, rk)]
        maxPossibleScore == SumOver(on, [f \in on |-> weights(f)])
    IN  IF \E f \in on : sub[f] = Throw THEN Throw
        ELSE IF \E f \in on : sub[f] = Undefined THEN Undefined
        ELSE IF maxPossibleScore > 0
             THEN RoundDiv(100 * SumOver(on, [f \in on |-> sub[f] * weights(f)]),
                           Unit * maxPossibleScore)
             ELSE 0

\* games.map(game => ({...game, excitementScore})): Throw when a score throws
scoredGames(games, options, rk) ==
    [i \in 1..Len(games) |->
        SetField(games[i], "excitementScore", calculateGameScore(games[i], options, rk))]

\* Array.prototype.sort with (a, b) => b.excitementScore - a.excitementScore
\* on numeric scores: a stable sort, here by insertion after the last element
\* that is not smaller
RECURSIVE InsertDesc(_, _)
InsertDesc(sorted, g) ==
    IF Len(sorted) = 0 THEN <<g>>
    ELSE IF sorted[Len(sorted)].excitementScore >= g.excitementScore
         THEN Append(sorted, g)
         ELSE Append(InsertDesc(SubSeq(sorted, 1, Len(sorted) - 1), g), sorted[Len(sorted)])

RECURSIVE SortDesc(_, _, _)
SortDesc(unsorted, i, sorted) ==
    IF i > Len(unsorted) THEN sorted
    ELSE SortDesc(unsorted, i + 1, InsertDesc(sorted, unsorted[i]))

\* [threw, games]: the exception of a score leaves map, and rankGames with it
rankGames(games, options, rk) ==
    IF Len(games) = 0 THEN [threw |-> FALSE, games |-> <<>>]
    ELSE LET scored == scoredGames(games, options, rk)
         IN  IF \E i \in 1..Len(scored) : scored[i].excitementScore = Throw
             THEN [threw |-> TRUE, games |-> <<>>]
             ELSE [threw |-> FALSE, games |-> SortDesc(scored, 1, <<>>)]

(***************************************************************************)
(* Parser.enhanceSingleGameWithDetailedData, in its synchronous pieces     *)
(***************************************************************************)

\* the detailed-rankings part, run before the first await
AttachDetailedRanking(game, detailedRankings) ==
    LET WithRanking(team) ==
            IF team.id \in DOMAIN detailedRankings
            THEN SetField(team, "detailedRanking", detailedRankings[team.id])
            ELSE team
    IN  [game EXCEPT !.awayTeam = WithRanking(@), !.homeTeam = WithRanking(@)]

\* !game.isFuture && game.status === 'Final'
FetchesBoxScore(game) == ~Has(game, "isFuture") /\ game.status = "Final"

\* a try branch that also takes the hit totals of the box score
MilestonesOverwriting(game, boxScoreData) ==
    LET milestones == processPlayerMilestones(boxScoreData)
        hitsOf(side) == boxScoreData.teams[side].teamStats.batting.hits
    IN  [SetField(SetField(game, "playerMilestones", milestones),
                  "hasPlayerMilestones",
                  milestones.away.hasMilestones \/ milestones.home.hasMilestones)
            EXCEPT !.awayTeam.hits = hitsOf("away"), !.homeTeam.hits = hitsOf("home")]

\* the try branch after the box score arrived
MilestonesAttached(game, boxScoreData) ==
    LET milestones == processPlayerMilestones(boxScoreData)
    IN  SetField(SetField(game, "playerMilestones", milestones),
                 "hasPlayerMilestones",
                 milestones.away.hasMilestones \/ milestones.home.hasMilestones)

\* a catch block that only logs
MilestonesLeftOut(game) == game

\* the catch branch
MilestonesFailed(game) ==
    SetField(SetField(game, "hasPlayerMilestones", FALSE),
             "playerMilestones",
             [away |-> [hasMilestones |-> FALSE], home |-> [hasMilestones |-> FALSE]])

\* UI.loadCompletedGames, step 3: teamRankings[id] || { divisionRank: 0 }
AttachRanking(game, teamRankings) ==
    LET WithRanking(team) ==
            SetField(team, "ranking",
                     IF team.id \in DOMAIN teamRankings THEN teamRankings[team.id]
                     ELSE [divisionRank |-> 0])
    IN  [game EXCEPT !.awayTeam = WithRanking(@), !.homeTeam = WithRanking(@)]

(***************************************************************************)
(* Inputs: raw upstream payloads, drawn from bounded sets                  *)
(***************************************************************************)

\* the longest linescore of the inputs
MaxInnings == 11

TeamName(id) ==
    CASE id = 1 -> "New York Yankees"
      [] id = 2 -> "Boston Red Sox"
      [] id = 3 -> "Houston Astros"
      [] OTHER -> "Texas Rangers"

\* a linescore of len innings, scoreless but for the innings in DOMAIN ev,
\* where ev[i] = <<away runs, home runs>> (Undefined: the half was not played)
Line(len, ev) ==
    [i \in 1..len |->
        IF i \in DOMAIN ev THEN [num |-> i, away |-> ev[i][1], home |-> ev[i][2]]
        ELSE [num |-> i, away |-> 0, home |-> 0]]

RECURSIVE RunsOf(_, _, _)
RunsOf(innings, side, i) ==
    IF i > Len(innings) THEN 0 ELSE OrZero(innings[i][side]) + RunsOf(innings, side, i + 1)

\* a raw schedule record of a completed game; the final scores are the sums of
\* the linescore
RawGame(gamePk, gameDate, awayId, homeId, innings, hits, errors) ==
    [gamePk |-> gamePk,
     gameDate |-> gameDate,
     status |-> [abstractGameState |-> "Final", detailedState |-> "Final"],
     teams |-> [away |-> [team |-> [id |-> awayId, name |-> TeamName(awayId)],
                          score |-> RunsOf(innings, "away", 1)],
                home |-> [team |-> [id |-> homeId, name |-> TeamName(homeId)],
                          score |-> RunsOf(innings, "home", 1)]],
     linescore |-> [innings |-> innings,
                    teams |-> [away |-> [hits |-> hits[1], errors |-> errors[1]],
                               home |-> [hits |-> hits[2], errors |-> errors[2]]]]]

\* a Final record without scores and linescore, as a postponed game is reported
ScorelessGame(gamePk, gameDate, awayId, homeId) ==
    [gamePk |-> gamePk,
     gameDate |-> gameDate,
     status |-> [abstractGameState |-> "Final", detailedState |-> "Postponed"],
     teams |-> [away |-> [team |-> [id |-> awayId, name |-> TeamName(awayId)]],
                home |-> [team |-> [id |-> homeId, name |-> TeamName(homeId)]]]]

May == [month |-> 4, day |-> 1, hour |-> 23]

September == [month |-> 8, day |-> 1, hour |-> 17]

\* a walk-off: the home side, behind after eight, wins in the ninth
WalkoffLine == Line(9, (1 :> <<4, 0>>) @@ (2 :> <<0, 3>>) @@ (9 :> <<0, 2>>))

\* extra innings, won by the away side in the last of them
ExtraLine == Line(MaxInnings, (1 :> <<1, 1>>) @@ (MaxInnings :> <<1, 0>>))

\* a 15-0 blowout
BlowoutLine == Line(9, (1 :> <<9, 0>>) @@ (2 :> <<6, 0>>))

\* linescores that between them take every branch of the per-inning analytics
SampleLines ==
    {Line(9, (1 :> <<3, 0>>) @@ (2 :> <<0, 2>>) @@ (9 :> <<0, Undefined>>)),
     WalkoffLine,
     Line(9, (1 :> <<5, 0>>) @@ (8 :> <<0, 6>>) @@ (9 :> <<0, Undefined>>)),
     ExtraLine,
     BlowoutLine,
     Line(9, (4 :> <<0, 1>>) @@ (9 :> <<0, Undefined>>)),
     Line(9, (1 :> <<1, 2>>) @@ (2 :> <<2, 2>>) @@ (3 :> <<2, 2>>) @@ (7 :> <<2, 2>>)
             @@ (8 :> <<2, 0>>) @@ (9 :> <<0, 2>>))}

\* box scores: a side is [teamStats, players]
Batter(id, hr, rbi, cycle) ==
    [person |-> [id |-> id],
     stats |-> [batting |-> [homeRuns |-> hr, rbi |-> rbi,
                             singles |-> IF cycle THEN 1 ELSE 0,
                             doubles |-> IF cycle THEN 1 ELSE 0,
                             triples |-> IF cycle THEN 1 ELSE 0]]]

Pitcher(id, ks) == [person |-> [id |-> id], stats |-> [pitching |-> [strikeOuts |-> ks]]]

BoxSide(hits, walks, hbp, errs, players) ==
    [teamStats |-> [batting |-> [hits |-> hits, baseOnBalls |-> walks, hitByPitch |-> hbp],
                    fielding |-> [errors |-> errs]],
     players |-> players]

BoxScore(away, home) == [teams |-> [away |-> away, home |-> home]]

QuietBox == BoxScore(BoxSide(7, 2, 0, 1, <<Batter(11, 1, 2, FALSE), Pitcher(12, 6)>>),
                     BoxSide(5, 3, 1, 0, <<Batter(21, 0, 0, FALSE), Pitcher(22, 9)>>))

SluggerBox == BoxScore(BoxSide(9, 2, 0, 0, <<Batter(11, 2, 5, FALSE), Pitcher(12, 10)>>),
                       BoxSide(8, 1, 0, 2, <<Batter(21, 3, 8, TRUE), Pitcher(22, 15),
                                             Pitcher(23, 11)>>))

PerfectBox == BoxScore(BoxSide(6, 1, 0, 0, <<Batter(11, 1, 1, FALSE), Pitcher(12, 14)>>),
                       BoxSide(0, 0, 0, 1, <<Batter(21, 0, 0, FALSE), Pitcher(22, 4)>>))

NoHitBox == BoxScore(BoxSide(0, 2, 0, 0, <<Batter(11, 0, 0, FALSE), Pitcher(12, 3)>>),
                     BoxSide(4, 0, 0, 0, <<Batter(21, 2, 2, FALSE), Pitcher(22, 12)>>))

SampleBoxes == {QuietBox, SluggerBox, PerfectBox, NoHitBox}

\* a standings payload: two divisions, teams 1..3
TeamRecord(team, divisionRank, gamesBack, wildCardRank, wildCardGamesBack, eliminationNumber) ==
    [team |-> team, divisionRank |-> divisionRank, gamesBack |-> gamesBack,
     wildCardRank |-> wildCardRank, wildCardGamesBack |-> wildCardGamesBack,
     eliminationNumber |-> eliminationNumber]

SampleStandings ==
    [records |->
        <<[division |-> "American League East",
           teamRecords |-> <<TeamRecord(1, 1, Undefined, 1, Undefined, Undefined),
                             TeamRecord(2, 2, 2, 2, 0, 1)>>],
          [division |-> "American League West",
           teamRecords |-> <<TeamRecord(3, 1, Undefined, 3, 4, 12)>>]>>]

\* assets/mlb/mlb_rivals.json as Ranker.loadRivalryData stores it
RivalsJson ==
    [loaded |-> TRUE,
     iconicRivalries |-> {{"New York Yankees", "Boston Red Sox"}},
     recentRivalries |-> {{"Houston Astros", "New York Yankees"}}]

\* what the catch block of loadRivalryData stores
EmptyRivalryData == [loaded |-> TRUE, iconicRivalries |-> {}, recentRivalries |-> {}]

(***************************************************************************)
(* Ranker.scoreToStars; a star rating is counted in half stars             *)
(***************************************************************************)

\* the score of a game with every applied sub-score 1.0
MaxScore == 100

\* Math.floor where scoreToStars has Math.round
scoreToStarsFloor(score) == (2 * (MaxScore + 4 * score)) \div MaxScore

\* rawStars = 1 + (score / 100) * 4; Math.round(rawStars * 2) / 2
scoreToStars(score) == RoundDiv(2 * (MaxScore + 4 * score), MaxScore)

(***************************************************************************)
(* UI: the four panels of the page, TRUE for a panel without class hidden  *)
(***************************************************************************)

AllHidden ==
    [loading |-> FALSE, gamesList |-> FALSE, errorMessage |-> FALSE, noGames |-> FALSE]

showLoading(v) ==
    [loading |-> TRUE, gamesList |-> FALSE, errorMessage |-> FALSE, noGames |-> FALSE]

hideLoading(v) == [v EXCEPT !.loading = FALSE]

showError(v) ==
    [hideLoading(v) EXCEPT !.errorMessage = TRUE, !.gamesList = FALSE, !.noGames = FALSE]

showNoGames(v) ==
    [hideLoading(v) EXCEPT !.noGames = TRUE, !.gamesList = FALSE, !.errorMessage = FALSE]

\* the last three statements of displayGames
showGamesList(v) ==
    [v EXCEPT !.gamesList = TRUE, !.noGames = FALSE, !.errorMessage = FALSE]

(***************************************************************************)
(* State                                                                   *)
(***************************************************************************)

VARIABLES
    pc,            \* where the modelled operation stands
    apiData,       \* the schedule payload handed to the Parser
    parsed,        \* [threw, games]: what the Parser call returned
    games,         \* the game objects of the batch (the array held by the caller)
    norm,          \* the batch as it was handed over, before any later stage
    fetch,         \* per game: the state of its box-score fetch
    rivalryData,   \* Ranker.rivalryData / iconicRivalries / recentRivalries
    pendingLoads,  \* calls of Ranker.loadRivalryData awaiting their fetch
    options,       \* the flags of the last scoring or ranking call
    score,         \* what the last calculateGameScore call returned
    ranked,        \* [threw, games]: what the last rankGames call returned
    calls,         \* the earlier rankGames calls: <<[options, ranked]>>
    stars,         \* the stars last computed or shown for the score, in half stars
    view,          \* the panels of the page: TRUE for a panel that is shown
    boxscoreData,  \* the box score handed to API.processPlayerMilestones
    milestones,    \* what the last processPlayerMilestones call returned
    cache,         \* APICache.cache: per key, its item or no entry
    now,           \* Date.now(), in minutes
    inflight,      \* per key: when each fetchFn call not yet settled was made
    lastGet,       \* the key and the result of the APICache.get call just made
    stored,        \* per key: the data and the time of the last set, never deleted
    nextData,      \* the next response not yet handed out
    loads,         \* the handleLoadGames calls started so far, each with its stage
    uiGames,       \* UI.games, as the date whose games the array holds
    isFutureGames, \* UI.isFutureGames
    gameCards      \* the date whose cards the games list holds

\* the variables of the API object's own operations
cacheVars == <<cache, now, inflight, lastGet, stored, nextData>>

apiVars == <<boxscoreData, milestones, cacheVars>>

\* the fields of the UI object that overlapping loads write
uiVars == <<loads, uiGames, isFutureGames, gameCards>>

vars == <<pc, apiData, parsed, games, norm, fetch, rivalryData, pendingLoads,
          options, score, ranked, calls, stars, view,
          apiVars,
          uiVars>>

NoPayload == [dates |-> <<>>]

NoResult == [threw |-> FALSE, games |-> <<>>]

\* UI.games = [] and an empty games list
NoDate == "none"

UiIdle ==
    /\ loads = <<>>
    /\ uiGames = NoDate
    /\ isFutureGames = FALSE
    /\ gameCards = NoDate

\* a box score response without teams, and the milestones of no call
NoBoxScore == [copyright |-> "MLB"]

NoMilestones == [away |-> EmptySideMilestones, home |-> EmptySideMilestones]

\* cache keys as Utils.createCacheKey builds them, one per request
Keys == {"mlb_/schedule", "mlb_/standings"}

\* Map.get of a key that is not in the map, and the null that get returns
NoEntry == [data |-> 0, timestamp |-> 0, present |-> FALSE]

Null == 0

\* no get call has just returned
NoGet == [key |-> "", data |-> Null]

\* new APICache(): an empty map
CacheIdle ==
    /\ cache = [k \in Keys |-> NoEntry]
    /\ now = 0
    /\ inflight = [k \in Keys |-> <<>>]
    /\ lastGet = NoGet
    /\ stored = [k \in Keys |-> NoEntry]
    /\ nextData = 1

ApiIdle ==
    /\ boxscoreData = NoBoxScore
    /\ milestones = NoMilestones
    /\ CacheIdle

\* calculateRivalryScore starts a load for every game it scores while
\* rivalryData is unset; a score that throws ends the map at that game
LoadsStartedBy(opts, gs, rk) ==
    IF "rivalryGame" \in opts /\ ~rk.loaded
    THEN LET throwing == {i \in 1..Len(gs) : calculateGameScore(gs[i], opts, rk) = Throw}
         IN  IF throwing = {} THEN Len(gs)
             ELSE CHOOSE i \in throwing : \A j \in throwing : i <= j
    ELSE 0

(***************************************************************************)
(* SpecScore: Ranker.calculateGameScore on one game                        *)
(***************************************************************************)

HitsFor(innings) == <<RunsOf(innings, "away", 1) * 2, RunsOf(innings, "home", 1) * 2 + 3>>

ErrorsFor(innings) == <<RunsOf(innings, "away", 1) % 3, Len(innings) % 2>>

ScoreRaw(date, awayId, homeId, l) ==
    RawGame(100, date, awayId, homeId, l, HitsFor(l), ErrorsFor(l))

\* a normalized game at each stage of UI.loadCompletedGames
Enriched(g) ==
    LET ranked1 == AttachRanking(g, processTeamRankings(SampleStandings))
        detailed == AttachDetailedRanking(ranked1, processDetailedStandings(SampleStandings))
    IN  {g, ranked1, detailed, MilestonesFailed(detailed)}
        \cup {MilestonesAttached(detailed, b) : b \in SampleBoxes}

\* a game with detailed rankings, and the same game after a failed fetch
LateSeason(g) ==
    LET detailed == AttachDetailedRanking(g, processDetailedStandings(SampleStandings))
    IN  {detailed, MilestonesFailed(detailed)}

\* a game at every stage, every linescore freshly normalized, games of the
\* late season, and a game without scores
ScoreGames ==
    Enriched(processGameData(ScoreRaw(May, 1, 2, WalkoffLine)))
    \cup LateSeason(processGameData(ScoreRaw(September, 3, 1, BlowoutLine)))
    \cup {processGameData(ScoreRaw(May, 1, 2, l)) : l \in SampleLines}
    \cup {AttachRanking(processGameData(ScoreRaw(September, 3, 1, ExtraLine)),
                         processTeamRankings(SampleStandings))}
    \cup {processGameData(ScorelessGame(101, May, 1, 2))}

InitScore ==
    /\ pc = "idle"
    /\ games \in {<<g>> : g \in ScoreGames}
    /\ rivalryData \in {NoRivalryData, RivalsJson}
    /\ apiData = NoPayload /\ parsed = NoResult /\ norm = <<>> /\ fetch = <<>>
    /\ pendingLoads = 0 /\ options = {} /\ score = 0
    /\ ranked = NoResult /\ calls = <<>>
    /\ stars = 0 /\ view = AllHidden
    /\ UiIdle
    /\ ApiIdle

\* keys of an options object that calculateGameScore never reads
UnknownFlags == {"favoriteTeam"}

\* the most recognised flags set next to an unknown key
MaxKnown == 2

\* the options objects of a call, as the set of their true keys: every
\* setting of the 13 flags, and settings of a few flags with an unknown key
OptionObjects ==
    SUBSET Factors
    \cup {known \cup UnknownFlags :
              known \in {k \in SUBSET Factors : Cardinality(k) <= MaxKnown}}

CalculateGameScore ==
    /\ pc = "idle"
    /\ \E opts \in OptionObjects :
          /\ options' = opts
          /\ score' = calculateGameScore(games[1], opts, rivalryData)
          /\ pendingLoads' = IF "rivalryGame" \in opts /\ ~rivalryData.loaded
                             THEN pendingLoads + 1 ELSE pendingLoads
    /\ pc' = "scored"
    /\ UNCHANGED <<apiData, parsed, games, norm, fetch, rivalryData, ranked, calls, stars, view, apiVars, uiVars>>

NextScore == CalculateGameScore

SpecScore == InitScore /\ [][NextScore]_vars

(***************************************************************************)
(* Claims on calculateGameScore, checked under SpecScore                   *)
(***************************************************************************)

\* the sub-scores of the factors the last call applied
LastSubScores ==
    [f \in Applied(games[1], options) |-> SubScore(f, games[1], rivalryData)]

\* C1: for every normalized game, enriched or not, and every set of enabled
\* factors, calculateGameScore returns a number in 0..100, every sub-score
\* lies in [0, 1], and the result is 0 when no enabled factor applies.
C1_ScoreInRange ==
    pc = "scored" =>
        /\ score \in 0..100
        /\ \A f \in DOMAIN LastSubScores : LastSubScores[f] \in 0..Unit
        /\ Applied(games[1], options) = {} => score = 0

C12_SkippedFactorNoEffect ==
    pc = "scored" =>
        /\ ("extraInnings" \in options /\ ~games[1].isExtraInnings) =>
               score = calculateGameScore(games[1], options \ {"extraInnings"}, rivalryData)
        /\ ~(options \subseteq Factors) =>
               score = calculateGameScore(games[1], options \cap Factors, rivalryData)

\* a call on a nine-inning game with extraInnings, another factor and an
\* unknown key set, and a positive score
C12_SkippedAndUnknownSet ==
    /\ pc = "scored"
    /\ ~games[1].isExtraInnings
    /\ options = {"extraInnings", "closeGames"} \cup UnknownFlags
    /\ score \in 1..100

(***************************************************************************)
(* SpecRank: Ranker.rankGames called again and again on one game list,     *)
(* while the loads started by calculateRivalryScore complete               *)
(***************************************************************************)

\* the longest game list
MaxBatch == 3

\* the most rankGames calls in one run
MaxCalls == 3

PoolGame(gamePk, date, awayId, homeId, line) ==
    AttachDetailedRanking(
        AttachRanking(processGameData(RawGame(gamePk, date, awayId, homeId, line,
                                              HitsFor(line), ErrorsFor(line))),
                      processTeamRankings(SampleStandings)),
        processDetailedStandings(SampleStandings))

\* games 2 and 5 tie on every factor; game 1 ties with them but for the
\* rivalry; the box-score fetch of game 3 failed; game 4 was never enriched
RankPool ==
    {MilestonesAttached(PoolGame(1, May, 1, 2, WalkoffLine), QuietBox),
     MilestonesAttached(PoolGame(2, May, 3, 4, WalkoffLine), QuietBox),
     MilestonesFailed(PoolGame(3, September, 3, 1, BlowoutLine)),
     processGameData(RawGame(4, May, 2, 4, ExtraLine, HitsFor(ExtraLine),
                             ErrorsFor(ExtraLine))),
     MilestonesAttached(PoolGame(5, May, 4, 3, WalkoffLine), QuietBox)}

\* the lists of at most MaxBatch different games of the pool
RankBatches ==
    {b \in UNION {[1..n -> RankPool] : n \in 0..MaxBatch} :
        \A i, j \in 1..Len(b) : i # j => b[i].id # b[j].id}

\* the flag sets the checkboxes are toggled between
RankOptions ==
    {{}, {"closeGames"}, {"rivalryGame"}, {"playerMilestones"},
     {"closeGames", "rivalryGame"}, Factors}

InitRank ==
    /\ pc = "idle"
    /\ games \in RankBatches
    /\ norm = games
    /\ rivalryData = NoRivalryData
    /\ apiData = NoPayload /\ parsed = NoResult /\ fetch = <<>>
    /\ pendingLoads = 0 /\ options = {} /\ score = 0
    /\ ranked = NoResult /\ calls = <<>>
    /\ stars = 0 /\ view = AllHidden
    /\ UiIdle
    /\ ApiIdle

RankGames ==
    /\ Len(calls) < MaxCalls
    /\ \E opts \in RankOptions :
          /\ options' = opts
          /\ ranked' = rankGames(games, opts, rivalryData)
          /\ pendingLoads' = pendingLoads + LoadsStartedBy(opts, games, rivalryData)
          /\ calls' = Append(calls, [options |-> opts, rivalryData |-> rivalryData,
                                     ranked |-> ranked'])
    /\ UNCHANGED <<pc, apiData, parsed, games, norm, fetch, rivalryData, score, stars, view, apiVars, uiVars>>

\* the fetch of a loadRivalryData call resolves: the try block stores the table
LoadRivalryDataOk ==
    /\ pendingLoads > 0
    /\ pendingLoads' = pendingLoads - 1
    /\ rivalryData' = RivalsJson
    /\ UNCHANGED <<pc, apiData, parsed, games, norm, fetch, options, score, ranked, calls,
                   stars, view, apiVars, uiVars>>

\* the fetch rejects: the catch block stores empty lists
LoadRivalryDataFailed ==
    /\ pendingLoads > 0
    /\ pendingLoads' = pendingLoads - 1
    /\ rivalryData' = EmptyRivalryData
    /\ UNCHANGED <<pc, apiData, parsed, games, norm, fetch, options, score, ranked, calls,
                   stars, view, apiVars, uiVars>>

NextRank == RankGames \/ LoadRivalryDataOk \/ LoadRivalryDataFailed

SpecRank == InitRank /\ [][NextRank]_vars

\* the place of the game with this id in the input list
InputIndex(id) == CHOOSE i \in 1..Len(games) : games[i].id = id

\* C3: rankGames returns exactly the input games, each with excitementScore
\* equal to its calculateGameScore, in non-increasing order of score, games of
\* equal score in their input order; an empty input gives an empty list.
C3_RanksAllGames ==
    \A k \in 1..Len(calls) :
        LET c == calls[k]
            out == c.ranked.games
        IN  /\ ~c.ranked.threw
            /\ Len(out) = Len(games)
            /\ {out[i].id : i \in 1..Len(out)} = {games[i].id : i \in 1..Len(games)}
            /\ \A i \in 1..Len(out) :
                  out[i] = SetField(games[InputIndex(out[i].id)], "excitementScore",
                                    calculateGameScore(games[InputIndex(out[i].id)],
                                                       c.options, c.rivalryData))
            /\ \A i, j \in 1..Len(out) :
                  i < j => /\ out[i].excitementScore >= out[j].excitementScore
                           /\ (out[i].excitementScore = out[j].excitementScore
                                  => InputIndex(out[i].id) < InputIndex(out[j].id))

\* C4: two rankGames calls with the same game list and the same enabled
\* factors return the same order and the same scores, whatever the loads of
\* the rivalry table did between them.
C4_SameCallSameResult ==
    \A j, k \in 1..Len(calls) :
        calls[j].options = calls[k].options => calls[j].ranked = calls[k].ranked

\* C9: rankGames leaves its input as it was, and the result of every call is
\* the result the same call gives when no call was made before it.
C9_NoEffectOfEarlierCalls ==
    /\ games = norm
    /\ \A k \in 1..Len(calls) :
          calls[k].ranked = rankGames(norm, calls[k].options, NoRivalryData)

(***************************************************************************)
(* SpecParse: Parser.processGames and Parser.processFutureGames on one     *)
(* schedule payload                                                        *)
(***************************************************************************)

\* the most raw records in a payload
MaxRecords == 3

\* a record of a game not yet played
PreviewGame(gamePk, gameDate, awayId, homeId) ==
    [gamePk |-> gamePk,
     gameDate |-> gameDate,
     status |-> [abstractGameState |-> "Preview", detailedState |-> "Scheduled"],
     teams |-> [away |-> [team |-> [id |-> awayId, name |-> TeamName(awayId)]],
                home |-> [team |-> [id |-> homeId, name |-> TeamName(homeId)]]]]

\* r without the property k
Without(r, k) == [x \in DOMAIN r \ {k} |-> r[x]]

ParseRaw(gamePk, date, awayId, homeId, l) ==
    RawGame(gamePk, date, awayId, homeId, l, HitsFor(l), ErrorsFor(l))

NextDay == [month |-> 4, day |-> 2, hour |-> 1]

\* gameDate strings that new Date() cannot parse
BadDate == [text |-> "TBD"]

\* well-formed records of one day and pair of teams (either side at home)
\* and of another, in every status, and the malformed records
ParsePool ==
    {ParseRaw(1, May, 1, 2, WalkoffLine),
     ParseRaw(2, May, 2, 1, BlowoutLine),
     ParseRaw(3, May, 1, 2, WalkoffLine),
     ParseRaw(4, NextDay, 3, 4, ExtraLine),
     ScorelessGame(5, May, 1, 2),
     PreviewGame(6, May, 1, 2),
     PreviewGame(7, May, 2, 1),
     [ParseRaw(8, May, 3, 4, ExtraLine) EXCEPT
         !.status = [abstractGameState |-> "Live", detailedState |-> "In Progress"]],
     Without(ParseRaw(9, May, 3, 4, ExtraLine), "status"),
     Without(ParseRaw(10, May, 3, 4, ExtraLine), "teams"),
     [ParseRaw(11, May, 3, 4, ExtraLine) EXCEPT !.teams.home = [score |-> 1]],
     ParseRaw(12, BadDate, 3, 4, ExtraLine),
     PreviewGame(13, BadDate, 3, 4),
     [PreviewGame(14, NextDay, 3, 4) EXCEPT
         !.status = [abstractGameState |-> "Scheduled", detailedState |-> "Scheduled"]]}

\* the payload has no dates, or up to MaxRecords records in one date bucket,
\* or split over two
InitParse ==
    /\ pc = "idle"
    /\ \/ apiData = NoPayload
       \/ \E n \in 0..MaxRecords : \E rs \in [1..n -> ParsePool] :
             \/ apiData = [dates |-> <<[games |-> rs]>>]
             \/ /\ n >= 2
                /\ apiData = [dates |-> <<[games |-> <<rs[1]>>], [games |-> Tail(rs)]>>]
    /\ parsed = NoResult
    /\ games = <<>> /\ norm = <<>> /\ fetch = <<>>
    /\ rivalryData = NoRivalryData /\ pendingLoads = 0 /\ options = {} /\ score = 0
    /\ ranked = NoResult /\ calls = <<>>
    /\ stars = 0 /\ view = AllHidden
    /\ UiIdle
    /\ ApiIdle

ProcessGames ==
    /\ pc = "idle"
    /\ parsed' = processGames(apiData)
    /\ pc' = "completed"
    /\ UNCHANGED <<apiData, games, norm, fetch, rivalryData, pendingLoads, options,
                   score, ranked, calls, stars, view, apiVars, uiVars>>

ProcessFutureGames ==
    /\ pc = "idle"
    /\ parsed' = processFutureGames(apiData)
    /\ pc' = "future"
    /\ UNCHANGED <<apiData, games, norm, fetch, rivalryData, pendingLoads, options,
                   score, ranked, calls, stars, view, apiVars, uiVars>>

NextParse == ProcessGames \/ ProcessFutureGames

SpecParse == InitParse /\ [][NextParse]_vars

\* the abstractGameState values the finished call looks for
Wanted == IF pc = "future" THEN {"Preview", "Scheduled"} ELSE {"Final"}

\* a record with every required sub-object and a parsable date
WellFormed(raw) ==
    Has(raw, "status") /\ TeamsComplete(raw) /\ ValidDate(raw.gameDate)

\* the records of s that satisfy Keep
RECURSIVE SelectRecords(_, _)
SelectRecords(s, keep) ==
    IF Len(s) = 0 THEN <<>>
    ELSE IF keep[Head(s)] THEN <<Head(s)>> \o SelectRecords(Tail(s), keep)
    ELSE SelectRecords(Tail(s), keep)

\* the well-formed records of the payload
GoodRecords ==
    SelectRecords(Flatten(apiData.dates), [r \in ParsePool |-> WellFormed(r)])

\* C6: with malformed records in the payload (no status, no teams, a side
\* without team, an unparsable date), processGames and processFutureGames
\* raise no exception and return what they return for the payload without
\* the malformed records: the normalized form of every other qualifying record.
C6_BadRecordSkipped ==
    pc \in {"completed", "future"} =>
        /\ ~parsed.threw
        /\ parsed = deduplicateGames(Collect(GoodRecords, Wanted, pc = "future"))

\* the list handed to deduplicateGames by the finished call
Deduplicated ==
    IF StatusReadable(Flatten(apiData.dates))
    THEN Collect(Flatten(apiData.dates), Wanted, pc = "future")
    ELSE <<>>

\* the rearrangements of the list s
Rearranged(s) ==
    {[i \in 1..Len(s) |-> s[p[i]]] :
        p \in {q \in [1..Len(s) -> 1..Len(s)] : \A i, j \in 1..Len(s) : q[i] = q[j] => i = j}}

\* per group, the totalRuns of the game kept
KeptRuns(out) == {<<DedupKey(out[i]), TotalRunsOf(out[i])>> : i \in 1..Len(out)}

\* C7: deduplicateGames returns exactly one game per (day, unordered pair of
\* team ids) of its input, the game kept has the most totalRuns of its group,
\* and this does not depend on the order of the input.
C7_OnePerGroupMostRuns ==
    (pc \in {"completed", "future"} /\ ~parsed.threw) =>
        LET in == Deduplicated
            out == parsed.games
        IN  /\ \A i, j \in 1..Len(out) : DedupKey(out[i]) = DedupKey(out[j]) => i = j
            /\ {DedupKey(out[i]) : i \in 1..Len(out)} = {DedupKey(in[i]) : i \in 1..Len(in)}
            /\ \A i \in 1..Len(out) :
                  /\ \E k \in 1..Len(in) : in[k] = out[i]
                  /\ \A k \in 1..Len(in) :
                        (DedupKey(in[k]) = DedupKey(out[i]) /\ TotalRunsOf(in[k]) # Undefined)
                            => JsGe(TotalRunsOf(out[i]), TotalRunsOf(in[k]))
            /\ \A other \in Rearranged(in) :
                  KeptRuns(deduplicateGames(other).games) = KeptRuns(out)

\* the statuses one of the two calls looks for
Recognised == {"Final", "Preview", "Scheduled"}

\* a record with a status that neither call looks for
OtherStatus(raw) ==
    Has(raw, "status") /\ raw.status.abstractGameState \notin Recognised

\* the payload without its records of another status, the date buckets kept
WithoutOtherStatus(payload) ==
    [dates |-> [d \in 1..Len(payload.dates) |->
        [games |-> SelectRecords(payload.dates[d].games,
                                 [r \in ParsePool |-> ~OtherStatus(r)])]]]

\* C11: every game returned by processGames has the gamePk of a record of the
\* payload whose abstractGameState is 'Final', every game returned by
\* processFutureGames that of a record whose abstractGameState is 'Preview' or
\* 'Scheduled'; a record with any other status is in neither output and
\* changes nothing of the call: the result, an exception included, is that of
\* the payload without such records.
C11_OnlyQualifyingStatus ==
    pc \in {"completed", "future"} =>
        LET raws == Flatten(apiData.dates)
            out == parsed.games
        IN  /\ \A i \in 1..Len(out) :
                  \E j \in 1..Len(raws) :
                      /\ Has(raws[j], "status")
                      /\ raws[j].status.abstractGameState \in Wanted
                      /\ raws[j].gamePk = out[i].id
            /\ \A j \in 1..Len(raws) :
                  OtherStatus(raws[j]) =>
                      \A i \in 1..Len(out) : out[i].id # raws[j].gamePk
            /\ parsed = ProcessWith(WithoutOtherStatus(apiData), Wanted, pc = "future")

\* a game in progress between two qualifying records, one of them returned
C11_LiveRecordAmongOthers ==
    /\ pc \in {"completed", "future"}
    /\ ~parsed.threw
    /\ Len(parsed.games) = 1
    /\ LET raws == Flatten(apiData.dates)
       IN  /\ Len(raws) = 3
           /\ OtherStatus(raws[2])
           /\ raws[1].status.abstractGameState = "Final"
           /\ raws[3].status.abstractGameState \in {"Preview", "Scheduled"}

(***************************************************************************)
(* SpecLoad: UI.loadCompletedGames from the schedule payload to the ranked *)
(* display, the box-score fetches completing in any order                  *)
(***************************************************************************)

\* the most games of a loaded day
MaxGames == 2

\* the most times the games are displayed (load, then filter changes)
MaxDisplays == 2

\* a game called early: Final, but detailedState is not 'Final'
CalledEarly(gamePk, date, awayId, homeId, l) ==
    [ParseRaw(gamePk, date, awayId, homeId, l) EXCEPT
        !.status = [abstractGameState |-> "Final", detailedState |-> "Completed Early"]]

LoadPool ==
    {ParseRaw(1, May, 1, 2, WalkoffLine),
     ParseRaw(3, September, 3, 1, ExtraLine),
     CalledEarly(4, May, 2, 4, WalkoffLine)}

\* payloads of different games, one date bucket
LoadPayloads ==
    {[dates |-> <<[games |-> rs]>>] :
        rs \in {b \in UNION {[1..n -> LoadPool] : n \in 0..MaxGames} :
                   \A i, j \in 1..Len(b) : i # j => b[i].gamePk # b[j].gamePk}}

\* what /game/{id}/boxscore answers
BoxOf(id) ==
    CASE id = 1 -> SluggerBox
      [] id = 3 -> NoHitBox
      [] OTHER -> QuietBox

LoadOptions == {{"playerMilestones"}, {"closeGames", "hits"}, Factors}

NotFetched == [state |-> "none", order |-> 0]

InitLoad ==
    /\ pc = "start"
    /\ apiData \in LoadPayloads
    /\ parsed = NoResult
    /\ games = <<>> /\ norm = <<>> /\ fetch = <<>>
    /\ rivalryData \in {NoRivalryData, RivalsJson}
    /\ pendingLoads = 0 /\ options = {} /\ score = 0
    /\ ranked = NoResult /\ calls = <<>>
    /\ stars = 0 /\ view = showLoading(AllHidden)
    /\ UiIdle
    /\ ApiIdle

\* UI.displayGames: rankGames with the flags of the checkboxes
DisplayGames(gs) ==
    IF Len(gs) = 0
    THEN /\ ranked' = NoResult
         /\ view' = showNoGames(hideLoading(view))
         /\ UNCHANGED <<options, pendingLoads, calls, apiVars, uiVars>>
    ELSE \E opts \in LoadOptions :
            /\ options' = opts
            /\ ranked' = rankGames(gs, opts, rivalryData)
            /\ pendingLoads' = pendingLoads + LoadsStartedBy(opts, gs, rivalryData)
            /\ calls' = Append(calls, [options |-> opts, rivalryData |-> rivalryData,
                                       ranked |-> ranked'])
            /\ view' = IF ranked'.threw THEN hideLoading(view)
                       ELSE showGamesList(hideLoading(view))

\* fetchGames or fetchStandings rejects: the catch block shows the error
FetchGamesFailed ==
    /\ pc = "start"
    /\ pc' = "error"
    /\ view' = hideLoading(showError(view))
    /\ UNCHANGED <<apiData, parsed, games, norm, fetch, rivalryData, pendingLoads,
                   options, score, ranked, calls, stars, apiVars, uiVars>>

\* steps 2 and 3, and enhanceGamesWithDetailedData up to its first await
ProcessAndAttach ==
    /\ pc = "start"
    /\ parsed' = processGames(apiData)
    /\ IF parsed'.threw
       THEN /\ pc' = "error"
            /\ view' = hideLoading(showError(view))
            /\ UNCHANGED <<games, norm, fetch, options, pendingLoads, ranked, calls, apiVars, uiVars>>
       ELSE /\ norm' = parsed'.games
            /\ games' = [i \in 1..Len(parsed'.games) |->
                            AttachRanking(parsed'.games[i],
                                          processTeamRankings(SampleStandings))]
            /\ fetch' = [i \in 1..Len(parsed'.games) |-> NotFetched]
            /\ IF Len(parsed'.games) = 0
               THEN pc' = "displayed" /\ DisplayGames(<<>>)
               ELSE pc' = "standings"
                    /\ UNCHANGED <<options, pendingLoads, ranked, calls, view, apiVars, uiVars>>
    /\ UNCHANGED <<apiData, rivalryData, score, stars, apiVars, uiVars>>

\* fetchDetailedStandings resolves: games.map runs every
\* enhanceSingleGameWithDetailedData up to its await of the box score
StandingsOk ==
    /\ pc = "standings"
    /\ games' = [i \in 1..Len(games) |->
                    AttachDetailedRanking(games[i], processDetailedStandings(SampleStandings))]
    /\ fetch' = [i \in 1..Len(games) |->
                    IF FetchesBoxScore(games[i]) THEN [state |-> "pending", order |-> 0]
                    ELSE NotFetched]
    /\ pc' = "boxscores"
    /\ UNCHANGED <<apiData, parsed, norm, rivalryData, pendingLoads, options, score,
                   ranked, calls, stars, view, apiVars, uiVars>>

\* fetchDetailedStandings rejects: the outer catch returns the games as they
\* are, and loadCompletedGames displays them
StandingsFailed ==
    /\ pc = "standings"
    /\ pc' = "displayed"
    /\ DisplayGames(games)
    /\ UNCHANGED <<apiData, parsed, games, norm, fetch, rivalryData, score, stars, apiVars, uiVars>>

\* how many box-score fetches have completed
Completed == Cardinality({i \in 1..Len(fetch) : fetch[i].order > 0})

BoxScoreOk(i) ==
    /\ pc = "boxscores"
    /\ i \in 1..Len(fetch)
    /\ fetch[i].state = "pending"
    /\ games' = [games EXCEPT ![i] = MilestonesAttached(@, BoxOf(@.id))]
    /\ fetch' = [fetch EXCEPT ![i] = [state |-> "ok", order |-> Completed + 1]]
    /\ UNCHANGED <<pc, apiData, parsed, norm, rivalryData, pendingLoads, options, score,
                   ranked, calls, stars, view, apiVars, uiVars>>

BoxScoreFailed(i) ==
    /\ pc = "boxscores"
    /\ i \in 1..Len(fetch)
    /\ fetch[i].state = "pending"
    /\ games' = [games EXCEPT ![i] = MilestonesFailed(@)]
    /\ fetch' = [fetch EXCEPT ![i] = [state |-> "failed", order |-> Completed + 1]]
    /\ UNCHANGED <<pc, apiData, parsed, norm, rivalryData, pendingLoads, options, score,
                   ranked, calls, stars, view, apiVars, uiVars>>

\* Promise.all resolves: this.games = games; this.displayGames()
EnhancedGamesDisplayed ==
    /\ pc = "boxscores"
    /\ \A i \in 1..Len(fetch) : fetch[i].state # "pending"
    /\ pc' = "displayed"
    /\ DisplayGames(games)
    /\ UNCHANGED <<apiData, parsed, games, norm, fetch, rivalryData, score, stars, apiVars, uiVars>>

\* a filter checkbox changes: UI.refreshGameRankings
RefreshGameRankings ==
    /\ pc = "displayed"
    /\ Len(games) > 0
    /\ Len(calls) < MaxDisplays
    /\ DisplayGames(games)
    /\ UNCHANGED <<pc, apiData, parsed, games, norm, fetch, rivalryData, score, stars, apiVars, uiVars>>

NextLoad ==
    \/ FetchGamesFailed
    \/ ProcessAndAttach
    \/ StandingsOk
    \/ StandingsFailed
    \/ \E i \in 1..MaxGames : BoxScoreOk(i)
    \/ \E i \in 1..MaxGames : BoxScoreFailed(i)
    \/ EnhancedGamesDisplayed
    \/ RefreshGameRankings
    \/ LoadRivalryDataOk
    \/ LoadRivalryDataFailed

SpecLoad == InitLoad /\ [][NextLoad]_vars

\* the game of the last ranking that has this id, as a one-element set
RankedWithId(id) ==
    {ranked.games[j] : j \in {k \in 1..Len(ranked.games) : ranked.games[k].id = id}}

\* C5: after a box-score fetch failed, rankGames with playerMilestones enabled
\* does not throw, ranks every game of the batch, and scores the game whose
\* fetch failed as a game without milestone data is scored.
C5_FailedFetchFallsBack ==
    (pc = "displayed" /\ Len(calls) > 0 /\ "playerMilestones" \in options) =>
        /\ ~ranked.threw
        /\ Len(ranked.games) = Len(games)
        /\ \A i \in 1..Len(games) :
              fetch[i].state = "failed" =>
                  \E g \in RankedWithId(games[i].id) :
                      g.excitementScore =
                          calculateGameScore(Without(games[i], "playerMilestones"),
                                             options, calls[Len(calls)].rivalryData)

\* C8: enhanceGamesWithDetailedData returns one game per input game, in input
\* order, whatever fetches fail and in whatever order they complete; a game
\* whose fetch failed has hasPlayerMilestones false, a game whose fetch
\* succeeded carries the milestones of its own box score.
C8_EnhancedInOrder ==
    pc \in {"boxscores", "displayed"} =>
        /\ Len(games) = Len(norm)
        /\ \A i \in 1..Len(games) :
              /\ games[i].id = norm[i].id
              /\ fetch[i].state = "failed" =>
                    Has(games[i], "hasPlayerMilestones") /\ ~games[i].hasPlayerMilestones
              /\ fetch[i].state = "ok" =>
                    LET own == processPlayerMilestones(BoxOf(norm[i].id))
                    IN  /\ Has(games[i], "playerMilestones")
                        /\ games[i].playerMilestones = own
                        /\ games[i].hasPlayerMilestones
                              = (own.away.hasMilestones \/ own.home.hasMilestones)

\* C8: the second game's fetch succeeded first, then the first game's failed,
\* and the enhanced list was handed back
C8_LaterGameFirst ==
    /\ pc = "displayed"
    /\ Len(games) >= 2
    /\ fetch[2].state = "ok" /\ fetch[1].state = "failed"
    /\ fetch[2].order < fetch[1].order

\* the fields of a team that processGameData writes
TeamFields == {"id", "name", "score", "hits", "errors"}

\* g carries every field of the normalized game n with the value n has
KeepsNormalized(g, n) ==
    /\ DOMAIN n \subseteq DOMAIN g
    /\ \A f \in DOMAIN n \ {"awayTeam", "homeTeam"} : g[f] = n[f]
    /\ \A side \in {"awayTeam", "homeTeam"} :
          /\ TeamFields \subseteq DOMAIN g[side]
          /\ \A f \in TeamFields : g[side][f] = n[side][f]

\* C10: attaching standings, enriching and ranking only add fields: every
\* field written by processGameData keeps the value of normalization, in the
\* loaded games and in the ranked copies, whether enrichment succeeds or fails.
C10_NormalizedFieldsKept ==
    /\ Len(games) = Len(norm)
    /\ \A i \in 1..Len(games) :
          /\ KeepsNormalized(games[i], norm[i])
          /\ \A g \in RankedWithId(norm[i].id) : KeepsNormalized(g, norm[i])

\* C10: a game was enriched from its box score, another one's fetch failed,
\* and both were ranked
C10_EnrichedAndRanked ==
    /\ pc = "displayed"
    /\ \E i, j \in 1..Len(games) : fetch[i].state = "ok" /\ fetch[j].state = "failed"
    /\ Len(ranked.games) = Len(games)
    /\ \A k \in 1..Len(ranked.games) : Has(ranked.games[k], "excitementScore")


\* the schedule or the standings fetch of the load was rejected
FetchFailed == pc = "error" /\ ~parsed.threw

\* the panels shown, the loading indicator aside
PanelsShown == {p \in {"errorMessage", "noGames", "gamesList"} : view[p]}

\* C17: when the load has finished, the loading indicator is hidden and
\* exactly one of the three panels is shown: the error message if and only if
\* the schedule or standings fetch failed, the no-games message if and only if
\* the fetches succeeded and no game was produced, the games list otherwise.
C17_OnePanelAfterLoad ==
    (pc \in {"error", "displayed"} /\ Len(calls) <= 1) =>
        /\ ~view.loading
        /\ Cardinality(PanelsShown) = 1
        /\ view.errorMessage <=> FetchFailed
        /\ view.noGames <=> (~FetchFailed /\ Len(games) = 0)
        /\ view.gamesList <=> (~FetchFailed /\ Len(games) > 0)

(***************************************************************************)
(* SpecNormalize: Parser.processGameData on one raw record of a completed  *)
(* game, over every linescore of a bounded family                          *)
(***************************************************************************)

\* the most innings whose runs are free
MaxFree == 3

\* the runs of a big half-inning
MaxRuns == 3

\* the innings of a regulation game
Regulation == 9

\* the runs of a half-inning: none, one, two, or a big inning of MaxRuns
RunValues == {0, 1, 2, MaxRuns}

\* the runs of the two halves of n innings
HalfRuns(n) == [1..n -> RunValues \X RunValues]

\* len innings, scoreless but for the last Len(r), which have the runs r
Innings(len, r) ==
    [i \in 1..len |->
        IF i > len - Len(r)
        THEN [num |-> i, away |-> r[i - (len - Len(r))][1],
                         home |-> r[i - (len - Len(r))][2]]
        ELSE [num |-> i, away |-> 0, home |-> 0]]

\* len innings, scoreless but for the first, with the runs r[1], and the
\* last, with the runs r[2]
FirstAndLast(len, r) ==
    [i \in 1..len |->
        IF i = 1 THEN [num |-> i, away |-> r[1][1], home |-> r[1][2]]
        ELSE IF i = len THEN [num |-> i, away |-> r[2][1], home |-> r[2][2]]
        ELSE [num |-> i, away |-> 0, home |-> 0]]

\* l with the bottom of its last inning not played
WithoutBottom(l) == [l EXCEPT ![Len(l)].home = Undefined]

\* the bottom of the last inning is not played when the home side leads
\* after the top
BottomNotNeeded(l) ==
    /\ Len(l) > 0
    /\ l[Len(l)].home = 0
    /\ RunsOf(l, "home", 1) > RunsOf(l, "away", 1)

\* the payload with the one record of a played game
Played(l) == [dates |-> <<[games |-> <<ParseRaw(1, May, 1, 2, l)>>]>>]

\* the raw record is a short game of free innings, or a game of 9 or 10
\* innings decided in its last two, or one with runs in its first and its last
\* inning, each also with the last bottom half left out where the home side
\* did not need it, or a game without scores
InitNormalize ==
    /\ pc = "raw"
    /\ \/ \E n \in 0..MaxFree : \E r \in HalfRuns(n) :
             \/ apiData = Played(Innings(n, r))
             \/ /\ BottomNotNeeded(Innings(n, r))
                /\ apiData = Played(WithoutBottom(Innings(n, r)))
       \/ \E len \in {Regulation, Regulation + 1} : \E r \in HalfRuns(2) :
             \/ apiData = Played(Innings(len, r))
             \/ /\ BottomNotNeeded(Innings(len, r))
                /\ apiData = Played(WithoutBottom(Innings(len, r)))
             \/ apiData = Played(FirstAndLast(len, r))
             \/ /\ BottomNotNeeded(FirstAndLast(len, r))
                /\ apiData = Played(WithoutBottom(FirstAndLast(len, r)))
       \/ apiData = [dates |-> <<[games |-> <<ScorelessGame(1, May, 1, 2)>>]>>]
    /\ parsed = NoResult
    /\ games = <<>> /\ norm = <<>> /\ fetch = <<>>
    /\ rivalryData = NoRivalryData /\ pendingLoads = 0 /\ options = {} /\ score = 0
    /\ ranked = NoResult /\ calls = <<>>
    /\ stars = 0 /\ view = AllHidden
    /\ UiIdle
    /\ ApiIdle

\* the record handed to processGameData
RawRecord == apiData.dates[1].games[1]

ProcessGameData ==
    /\ pc = "raw"
    /\ games' = <<processGameData(RawRecord)>>
    /\ pc' = "normalized"
    /\ UNCHANGED <<apiData, parsed, norm, fetch, rivalryData, pendingLoads, options,
                   score, ranked, calls, stars, view, apiVars, uiVars>>

NextNormalize == ProcessGameData

SpecNormalize == InitNormalize /\ [][NextNormalize]_vars

(***************************************************************************)
(* Claims on the derived fields of processGameData, under SpecNormalize    *)
(***************************************************************************)

\* the score after every half-inning of the linescore, top then bottom
RECURSIVE HalfScores(_, _, _, _)
HalfScores(innings, i, a, h) ==
    IF i > Len(innings) THEN <<>>
    ELSE LET a2 == a + OrZero(innings[i].away)
             h2 == h + OrZero(innings[i].home)
         IN  <<[away |-> a2, home |-> h], [away |-> a2, home |-> h2]>>
             \o HalfScores(innings, i + 1, a2, h2)

\* the walk of the normalized game's linescore
Walk == HalfScores(RawInnings(RawRecord), 1, 0, 0)

\* the lead of the away side after half k (negative: the home side leads)
AwayLead(k) == Walk[k].away - Walk[k].home

\* the largest lead of the walk
LargestLead ==
    IF Len(Walk) = 0 THEN 0
    ELSE CHOOSE m \in {Abs(AwayLead(k)) : k \in 1..Len(Walk)} :
             \A k \in 1..Len(Walk) : Abs(AwayLead(k)) <= m

\* the team that first held the largest lead
LargestLeadHolder ==
    LET first == CHOOSE k \in 1..Len(Walk) :
                     /\ Abs(AwayLead(k)) = LargestLead
                     /\ \A j \in 1..(k - 1) : Abs(AwayLead(j)) < LargestLead
    IN  IF AwayLead(first) > 0 THEN games[1].awayTeam.id ELSE games[1].homeTeam.id

\* C13: a game produced by processGameData with hasComebackWin true has
\* maxLead >= 3, maxLead is the largest lead of the half-inning walk, the team
\* that first held it is not comebackTeamId, and comebackTeamId is the team
\* with the strictly higher final score.
C13_ComebackConsistent ==
    (pc = "normalized" /\ games[1].hasComebackWin) =>
        LET g == games[1]
        IN  /\ g.maxLead >= 3
            /\ g.maxLead = LargestLead
            /\ LargestLeadHolder # g.comebackTeamId
            /\ \/ g.comebackTeamId = g.awayTeam.id /\ g.awayTeam.score > g.homeTeam.score
               \/ g.comebackTeamId = g.homeTeam.id /\ g.homeTeam.score > g.awayTeam.score

\* the away side led by 3 or more and the home side won
C13_HomeCameBack ==
    /\ pc = "normalized"
    /\ games[1].hasComebackWin
    /\ games[1].maxLead = 3
    /\ games[1].comebackTeamId = games[1].homeTeam.id
    /\ games[1].homeTeam.score = games[1].awayTeam.score + 1

\* C14: for every game produced by processGameData, totalRuns is the away
\* side's final runs plus the home side's and runDifference is the absolute
\* value of their difference; on a record without final scores both are NaN.
C14_TotalsFromFinalScores ==
    pc = "normalized" =>
        LET g == games[1]
            away == RawRecord.teams.away
            home == RawRecord.teams.home
        IN  IF Has(away, "score") /\ Has(home, "score")
            THEN /\ g.totalRuns = away.score + home.score
                 /\ g.runDifference = IF away.score >= home.score
                                      THEN away.score - home.score
                                      ELSE home.score - away.score
            ELSE g.totalRuns = Undefined /\ g.runDifference = Undefined

\* the home side won 3-2
C14_HomeWonByOne ==
    /\ pc = "normalized"
    /\ RawRecord.teams.away.score = 2
    /\ RawRecord.teams.home.score = 3
    /\ games[1].totalRuns = 5
    /\ games[1].runDifference = 1

\* C15: for every game produced by processGameData, inningScores has one
\* entry per inning of the raw linescore, in the same order and with that
\* inning's number and runs (0 for a half not played), innings is
\* inningScores.length, and isExtraInnings is true exactly when that length
\* exceeds 9.
C15_InningScoresFollowLinescore ==
    pc = "normalized" =>
        LET g == games[1]
            raw == RawInnings(RawRecord)
        IN  /\ Len(g.inningScores) = Len(raw)
            /\ \A i \in 1..Len(raw) :
                  /\ g.inningScores[i].inningNumber = raw[i].num
                  /\ g.inningScores[i].away = (IF raw[i].away = Undefined THEN 0 ELSE raw[i].away)
                  /\ g.inningScores[i].home = (IF raw[i].home = Undefined THEN 0 ELSE raw[i].home)
            /\ g.innings = Len(g.inningScores)
            /\ g.isExtraInnings <=> Len(g.inningScores) > Regulation

\* a game of 10 innings, the away side scoring in the 9th and the 10th
C15_TenInnings ==
    /\ pc = "normalized"
    /\ games[1].isExtraInnings
    /\ games[1].innings = Regulation + 1
    /\ games[1].inningScores[Regulation].away = 1
    /\ games[1].inningScores[Regulation + 1].away = 2
    /\ games[1].inningScores[Regulation].home = 1

(***************************************************************************)
(* SpecStars: Ranker.scoreToStars on every score calculateGameScore gives  *)
(***************************************************************************)

InitStars ==
    /\ pc = "score"
    /\ score \in 0..MaxScore
    /\ apiData = NoPayload /\ parsed = NoResult
    /\ games = <<>> /\ norm = <<>> /\ fetch = <<>>
    /\ rivalryData = NoRivalryData /\ pendingLoads = 0 /\ options = {}
    /\ ranked = NoResult /\ calls = <<>>
    /\ stars = 0 /\ view = AllHidden
    /\ UiIdle
    /\ ApiIdle

ScoreToStars ==
    /\ pc = "score"
    /\ stars' = scoreToStars(score)
    /\ pc' = "stars"
    /\ UNCHANGED <<apiData, parsed, games, norm, fetch, rivalryData, pendingLoads,
                   options, score, ranked, calls, view, apiVars, uiVars>>

\* GameCard.getStarRating: the number of star symbols and whether the half-star
\* symbol follows them
getStarRating(excitementScore) ==
    [stars |-> Max2(1, Min2(5, (excitementScore \div 20) + 1)),
     hasHalfStar |-> (excitementScore % 20) >= 10]

\* the card of a game with this score is rendered; the stars shown are kept in
\* half stars, as for scoreToStars
GetStarRating ==
    /\ pc = "score"
    /\ stars' = LET shown == getStarRating(score)
                IN  2 * shown.stars + (IF shown.hasHalfStar THEN 1 ELSE 0)
    /\ pc' = "card"
    /\ UNCHANGED <<apiData, parsed, games, norm, fetch, rivalryData, pendingLoads,
                   options, score, ranked, calls, view, apiVars, uiVars>>

NextStars ==
    \/ ScoreToStars
    \/ GetStarRating

SpecStars == InitStars /\ [][NextStars]_vars

\* C16: for every integer score from 0 to 100, scoreToStars returns a
\* multiple of 0.5 between 1 and 5, the half star nearest to 1 + score/25,
\* is non-decreasing in the score, and maps 0 to 1.0, 50 to 3.0 and 100 to 5.0.
C16_StarsOfScore ==
    (pc = "stars" /\ score \in 0..100) =>
        /\ stars \in 2..10
        /\ 2 * Abs(100 * stars - (200 + 8 * score)) <= 100
        /\ \A lower \in 0..score : scoreToStars(lower) <= stars
        /\ score = 0 => stars = 2
        /\ score = 50 => stars = 6
        /\ score = 100 => stars = 10

\* score 57 is 3.28 raw stars, shown as 3.5
C16_RoundedUp ==
    /\ pc = "stars"
    /\ score = 57
    /\ stars = 7

\* the halves of a linescore that were played, in order
RECURSIVE PlayedHalves(_)
PlayedHalves(innings) ==
    IF Len(innings) = 0 THEN <<>>
    ELSE LET inning == Head(innings)
         IN  (IF inning.away # Undefined
              THEN <<[side |-> "away", runs |-> inning.away]>> ELSE <<>>)
             \o (IF inning.home # Undefined
                 THEN <<[side |-> "home", runs |-> inning.home]>> ELSE <<>>)
             \o PlayedHalves(Tail(innings))

\* the reference fold over the halves; st = [away, home, leader, changes]
ReferenceStep(st, half) ==
    IF half.side = "away"
    THEN LET total == st.away + half.runs
         IN  IF total > st.home
             THEN [away |-> total, home |-> st.home, leader |-> "away",
                   changes |-> IF st.leader = "home" THEN st.changes + 1 ELSE st.changes]
             ELSE [st EXCEPT !.away = total]
    ELSE LET total == st.home + half.runs
         IN  IF total > st.away
             THEN [away |-> st.away, home |-> total, leader |-> "home",
                   changes |-> IF st.leader = "away" THEN st.changes + 1 ELSE st.changes]
             ELSE IF total = st.away
                  THEN [st EXCEPT !.home = total, !.leader = "none"]
                  ELSE [st EXCEPT !.home = total]

RECURSIVE ReferenceFold(_, _)
ReferenceFold(halves, st) ==
    IF Len(halves) = 0 THEN st
    ELSE ReferenceFold(Tail(halves), ReferenceStep(st, Head(halves)))

ReferenceLeadChanges(innings) ==
    ReferenceFold(PlayedHalves(innings),
                  [away |-> 0, home |-> 0, leader |-> "none", changes |-> 0]).changes

\* the linescore up to its k-th half: the bottom of the last inning is cut
\* off when k is odd
UpToHalf(innings, k) ==
    LET whole == SubSeq(innings, 1, (k + 1) \div 2)
    IN  IF k % 2 = 1 THEN WithoutBottom(whole) ELSE whole

\* the variables of countLeadChanges after the k-th half of the linescore
LoopState(k) ==
    LeadFold(UpToHalf(RawInnings(RawRecord), k), 1,
             [lc |-> 0, a |-> 0, h |-> 0, leader |-> Undefined],
             RawRecord.teams.away.team.id, RawRecord.teams.home.team.id)

\* the linescore with the two sides exchanged, so that the home runs of an
\* inning are added first
SidesExchanged(innings) ==
    [i \in 1..Len(innings) |->
        [num |-> innings[i].num, away |-> innings[i].home, home |-> innings[i].away]]

\* C18: countLeadChanges is the reference fold over the ordered halves: add
\* the away runs and, if away is strictly ahead, count a change when the
\* recorded leader is home and record away; add the home runs and, if home is
\* strictly ahead, count a change when the recorded leader is away and record
\* home, else record none when the totals are equal. The counter is never
\* incremented in a half before which the recorded leader is none.
C18_LeadChangesReferenceFold ==
    pc = "normalized" =>
        /\ games[1].leadChanges = ReferenceLeadChanges(RawInnings(RawRecord))
        /\ \A k \in 1..(2 * Len(RawInnings(RawRecord))) :
              LoopState(k).lc > LoopState(k - 1).lc =>
                  LoopState(k - 1).leader # Undefined

\* a game with a lead change whose count is another one when the home runs of
\* each inning are added before the away runs
C18_OrderInsideInningMatters ==
    /\ pc = "normalized"
    /\ games[1].leadChanges = 1
    /\ countLeadChanges(SidesExchanged(RawInnings(RawRecord)),
                        RawRecord.teams.home.team.id,
                        RawRecord.teams.away.team.id) = 0

\* the halves of the linescore in which countLeadChanges counted a change
CountedHalves ==
    {k \in 1..(2 * Len(RawInnings(RawRecord))) : LoopState(k).lc > LoopState(k - 1).lc}

\* the number of the inning of the last counted change, 0 when there is none
LastCountedInning ==
    IF CountedHalves = {} THEN 0
    ELSE LET last == CHOOSE k \in CountedHalves : \A j \in CountedHalves : j <= k
         IN  RawInnings(RawRecord)[(last + 1) \div 2].num

\* C19: lastLeadChangeInning is the number of the inning in which the last
\* lead change counted by countLeadChanges occurred, and it is 0 exactly when
\* leadChanges is 0.
C19_LastLeadChangeAgrees ==
    pc = "normalized" =>
        /\ games[1].lastLeadChangeInning = LastCountedInning
        /\ games[1].lastLeadChangeInning = 0 <=> games[1].leadChanges = 0

\* the side with the higher final score trailed by 3 or more after some half
WinnerTrailedByThree ==
    LET g == games[1]
    IN  \/ /\ g.awayTeam.score > g.homeTeam.score
           /\ \E k \in 1..Len(Walk) : AwayLead(k) <= -3
        \/ /\ g.homeTeam.score > g.awayTeam.score
           /\ \E k \in 1..Len(Walk) : AwayLead(k) >= 3

\* the away side led 5-0 and the home side won 6-5
FiveNilThenSixFive ==
    /\ \E k \in 1..Len(Walk) : Walk[k] = [away |-> 5, home |-> 0]
    /\ games[1].awayTeam.score = 5
    /\ games[1].homeTeam.score = 6

\* C20: for a linescore whose runs sum to the final scores, hasComebackWin is
\* true if and only if the winning side trailed by 3 or more runs after some
\* half-inning; away leading 5-0 and home winning 6-5 gives maxLead 5,
\* hasComebackWin true and the home side as comeback side.
C20_ComebackIffTrailedByThree ==
    pc = "normalized" =>
        /\ games[1].hasComebackWin <=> WinnerTrailedByThree
        /\ FiveNilThenSixFive =>
              /\ games[1].maxLead = 5
              /\ games[1].hasComebackWin
              /\ games[1].comebackTeamId = games[1].homeTeam.id

\* C21: isWalkoff is true if and only if the home final score exceeds the
\* away final score, the last inning of the linescore is numbered 9 or higher,
\* and the home final score minus the home runs of that inning is at most the
\* away final score; with no innings it is false.
C21_WalkoffIffThreeConditions ==
    pc = "normalized" =>
        LET raw == RawInnings(RawRecord)
            away == RawRecord.teams.away
            home == RawRecord.teams.home
        IN  IF Len(raw) = 0 THEN ~games[1].isWalkoff
            ELSE LET last == raw[Len(raw)]
                     lastHomeRuns == IF last.home = Undefined THEN 0 ELSE last.home
                 IN  games[1].isWalkoff <=>
                         /\ home.score > away.score
                         /\ last.num >= 9
                         /\ home.score - lastHomeRuns <= away.score

\* the home side trailed 4-3 before the bottom of the 9th and won 5-4
C21_WonInBottomOfNinth ==
    /\ pc = "normalized"
    /\ games[1].isWalkoff
    /\ games[1].innings = Regulation
    /\ games[1].awayTeam.score = 4
    /\ games[1].homeTeam.score = 5
    /\ games[1].inningScores[Regulation].home = 2

\* at most one side is strictly ahead after some half
OnlyOneSideAhead ==
    ~(/\ \E k \in 1..Len(Walk) : AwayLead(k) > 0
      /\ \E k \in 1..Len(Walk) : AwayLead(k) < 0)

\* the away side is ahead after every half
AwayLeadsThroughout ==
    /\ Len(Walk) > 0
    /\ \A k \in 1..Len(Walk) : AwayLead(k) > 0

\* C22: a game in which only one side is ever strictly ahead after a half
\* inning has leadChanges 0; a game the away side leads from the top of the
\* first inning to the end has leadChanges 0 and isWalkoff false.
C22_OneSideAheadNoLeadChange ==
    pc = "normalized" =>
        /\ OnlyOneSideAhead => games[1].leadChanges = 0
        /\ AwayLeadsThroughout => games[1].leadChanges = 0 /\ ~games[1].isWalkoff

\* a 9-inning game the away side leads from the first inning and wins 3-2
C22_AwayLedFromFirstInning ==
    /\ pc = "normalized"
    /\ AwayLeadsThroughout
    /\ games[1].innings = Regulation
    /\ games[1].awayTeam.score = 3
    /\ games[1].homeTeam.score = 2
    /\ games[1].leadChanges = 0
    /\ games[1].runDifference = 1


\* the band value of the documentation for a number of total runs
RunsBand(totalRuns) ==
    IF totalRuns >= 15 THEN 1000
    ELSE IF totalRuns >= 12 THEN 700
    ELSE IF totalRuns >= 10 THEN 500
    ELSE IF totalRuns >= 8 THEN 300
    ELSE IF totalRuns >= 6 THEN 100
    ELSE 0

\* a normalized game with 10 runs or more decided by at most 2
HighScoringAndClose ==
    /\ pc = "normalized"
    /\ games[1].totalRuns >= 10
    /\ games[1].runDifference /= Undefined
    /\ games[1].runDifference <= 2

\* C23: on a normalized game the high-scoring sub-score is the band value of
\* totalRuns, times 1.2 and capped at 1.0 when totalRuns >= 10 and the final run
\* difference is at most 2, and the plain band value otherwise
C23_HighScoringBonus ==
    (pc = "normalized" /\ games[1].totalRuns /= Undefined) =>
        calculateHighScoringScore(games[1]) =
            IF HighScoringAndClose
            THEN Min2(Unit, (RunsBand(games[1].totalRuns) * 12) \div 10)
            ELSE RunsBand(games[1].totalRuns)

\* what the code returns on every normalized game: the plain band value
C23_PlainBandEverywhere ==
    (pc = "normalized" /\ games[1].totalRuns /= Undefined) =>
        calculateHighScoringScore(games[1]) = RunsBand(games[1].totalRuns)


(***************************************************************************)
(* SpecMilestones: API.processPlayerMilestones on one box score            *)
(***************************************************************************)

MaxPitchers == 2

\* strikeout counts below, at and above the threshold of 10
StrikeoutValues == {9, 10, 12}

\* team totals: none or one hit, walk, hit batter, error
StatValues == {0, 1}

\* the pitchers of a side in box-score order, the i-th with person.id i
PitcherLists ==
    UNION {{[i \in 1..n |-> Pitcher(i, ks[i])] : ks \in [1..n -> StrikeoutValues]}
           : n \in 0..MaxPitchers}

\* a side whose box score carries no teamStats
SideWithoutStats(players) == [players |-> players]

BoxSides(lists) ==
    {BoxSide(h, w, b, e, pl) : h \in StatValues, w \in StatValues, b \in StatValues,
                               e \in StatValues, pl \in lists}
        \cup {SideWithoutStats(pl) : pl \in lists}

\* the players of the side whose pitchers are not varied
OtherPlayers == {<<Batter(21, 0, 0, FALSE), Pitcher(22, 4)>>}

InitMilestones ==
    /\ pc = "boxscore"
    /\ \/ boxscoreData = NoBoxScore
       \/ \E a \in BoxSides(PitcherLists), h \in BoxSides(OtherPlayers) :
             boxscoreData = BoxScore(a, h)
       \/ \E a \in BoxSides(OtherPlayers), h \in BoxSides(PitcherLists) :
             boxscoreData = BoxScore(a, h)
    /\ milestones = NoMilestones
    /\ apiData = NoPayload /\ parsed = NoResult
    /\ games = <<>> /\ norm = <<>> /\ fetch = <<>>
    /\ rivalryData = NoRivalryData /\ pendingLoads = 0 /\ options = {}
    /\ score = 0 /\ ranked = NoResult /\ calls = <<>>
    /\ stars = 0 /\ view = AllHidden
    /\ UiIdle
    /\ CacheIdle

ProcessPlayerMilestones ==
    /\ pc = "boxscore"
    /\ milestones' = processPlayerMilestones(boxscoreData)
    /\ pc' = "milestones"
    /\ UNCHANGED <<apiData, parsed, games, norm, fetch, rivalryData, pendingLoads,
                   options, score, ranked, calls, stars, view, boxscoreData, cacheVars,
                   uiVars>>

NextMilestones == ProcessPlayerMilestones

SpecMilestones == InitMilestones /\ [][NextMilestones]_vars

Sides == {"away", "home"}

Opposite(side) == IF side = "away" THEN "home" ELSE "away"

\* the strikeout counts of the pitchers of a side that reached 10
QualifyingStrikeouts(team) ==
    {team.players[i].stats.pitching.strikeOuts :
        i \in {j \in 1..Len(team.players) :
                  /\ Has(team.players[j].stats, "pitching")
                  /\ team.players[j].stats.pitching.strikeOuts >= 10}}

\* C24: on each side highStrikeoutPitcher is the pitcher of that side with the
\* highest strikeout count among those with at least 10 strikeouts, and null
\* when none has 10, in whatever order the players appear in the box score
C24_HighestStrikeoutPitcher ==
    (pc = "milestones" /\ Has(boxscoreData, "teams")) =>
        \A side \in Sides :
            LET ks == QualifyingStrikeouts(boxscoreData.teams[side])
                found == milestones[side].highStrikeoutPitcher
            IN  IF ks = {} THEN found = <<>>
                ELSE /\ found /= <<>>
                     /\ \A k \in ks : found[1].strikeOuts >= k

\* what the code keeps: the last pitcher in box-score order with 10 or more
C24_LastQualifyingPitcher ==
    (pc = "milestones" /\ Has(boxscoreData, "teams")) =>
        \A side \in Sides :
            LET players == boxscoreData.teams[side].players
                at == {j \in 1..Len(players) :
                          /\ Has(players[j].stats, "pitching")
                          /\ players[j].stats.pitching.strikeOuts >= 10}
                found == milestones[side].highStrikeoutPitcher
            IN  IF at = {} THEN found = <<>>
                ELSE /\ found /= <<>>
                     /\ found[1].id = players[CHOOSE j \in at : \A k \in at : k <= j].person.id

\* the team totals a side's pitching feats are read from
OpposingHitless(side) ==
    /\ Has(boxscoreData.teams[Opposite(side)], "teamStats")
    /\ boxscoreData.teams[Opposite(side)].teamStats.batting.hits = 0

NoBaserunnerAllowed(side) ==
    /\ OpposingHitless(side)
    /\ boxscoreData.teams[Opposite(side)].teamStats.batting.baseOnBalls = 0
    /\ boxscoreData.teams[Opposite(side)].teamStats.batting.hitByPitch = 0
    /\ Has(boxscoreData.teams[side], "teamStats")
    /\ boxscoreData.teams[side].teamStats.fielding.errors = 0

\* C25 as stated: noHitter exactly when the opposing side's hits are 0,
\* perfectGame exactly when moreover its walks and hit batters and this side's
\* errors are 0, and a side whose team stats are missing gets neither
C25_SideWithoutStatsGetsNeither ==
    (pc = "milestones" /\ Has(boxscoreData, "teams")) =>
        \A side \in Sides :
            /\ milestones[side].noHitter <=> OpposingHitless(side)
            /\ milestones[side].perfectGame <=> NoBaserunnerAllowed(side)
            /\ ~Has(boxscoreData.teams[side], "teamStats") =>
                   ~milestones[side].noHitter /\ ~milestones[side].perfectGame

\* C25, amended: noHitter exactly when the opposing side's hits are 0,
\* perfectGame exactly when moreover its walks and hit batters and this side's
\* errors are 0; perfectGame implies noHitter; a side gets neither when the
\* opposing side's team stats are missing, and no perfectGame when its own are
C25_NoHitterAndPerfectGame ==
    (pc = "milestones" /\ Has(boxscoreData, "teams")) =>
        \A side \in Sides :
            /\ milestones[side].noHitter <=> OpposingHitless(side)
            /\ milestones[side].perfectGame <=> NoBaserunnerAllowed(side)
            /\ milestones[side].perfectGame => milestones[side].noHitter
            /\ ~Has(boxscoreData.teams[Opposite(side)], "teamStats") =>
                   ~milestones[side].noHitter /\ ~milestones[side].perfectGame
            /\ ~Has(boxscoreData.teams[side], "teamStats") => ~milestones[side].perfectGame

\* a double no-hitter: the home side pitched a perfect game, the away side
\* allowed no hit either but put a runner on base or made an error
C25_PerfectGameAtHome ==
    /\ pc = "milestones"
    /\ Has(boxscoreData, "teams")
    /\ milestones.home.perfectGame /\ milestones.home.noHitter
    /\ milestones.away.noHitter /\ ~milestones.away.perfectGame


\* C26: a normalized game with hasComebackWin has leadChanges >= 1, the lead
\* having passed from the side that led by 3 or more to the eventual winner
C26_ComebackHasLeadChange ==
    (pc = "normalized" /\ games[1].hasComebackWin) => games[1].leadChanges >= 1


(***************************************************************************)
(* SpecOverlap: UI.handleLoadGames started again before the earlier load   *)
(* has resolved (js/mlb/ui.js); a date stands for the games of that date   *)
(***************************************************************************)

MaxLoads == 2

\* the value of the date field: two dates not after today and one after it
Dates == {"A", "B", "F"}

FutureDates == {"F"}

\* the date field left empty
EmptyDate == ""

\* the two requests of Promise.all([API.fetchGames(date), API.fetchStandings(date)])
Requests == {"games", "standings"}

InitOverlap ==
    /\ pc = "page"
    /\ UiIdle
    /\ apiData = NoPayload /\ parsed = NoResult
    /\ games = <<>> /\ norm = <<>> /\ fetch = <<>>
    /\ rivalryData = NoRivalryData /\ pendingLoads = 0 /\ options = {}
    /\ score = 0 /\ ranked = NoResult /\ calls = <<>>
    /\ stars = 0 /\ view = AllHidden
    /\ ApiIdle

\* a click on the load button: handleLoadGames up to its first await
HandleLoadGames ==
    /\ Len(loads) < MaxLoads
    /\ \E date \in Dates \cup {EmptyDate} :
          IF date = EmptyDate
          THEN /\ view' = showError(view)
               /\ UNCHANGED loads
          ELSE /\ view' = showLoading(view)
               /\ loads' = Append(loads, [date |-> date, pending |-> Requests,
                                          stage |-> "fetching"])
    /\ UNCHANGED <<pc, apiData, parsed, games, norm, fetch, rivalryData, pendingLoads,
                   options, score, ranked, calls, stars, apiVars,
                   uiGames, isFutureGames, gameCards>>

\* this.games = games; this.isFutureGames = ...; this.displayGames()
StoreAndDisplay(i, future) ==
    /\ uiGames' = loads[i].date
    /\ isFutureGames' = future
    /\ gameCards' = loads[i].date
    /\ view' = showGamesList(hideLoading(view))
    /\ loads' = [loads EXCEPT ![i].pending = {}, ![i].stage = "done"]

\* one of the two requests of a load resolves; the second one resumes the
\* load: loadFutureGames runs to its end, loadCompletedGames to its await of
\* Parser.enhanceGamesWithDetailedData
FetchResolves ==
    /\ \E i \in 1..Len(loads) : \E f \in loads[i].pending :
          /\ loads[i].stage = "fetching"
          /\ IF loads[i].pending /= {f}
             THEN /\ loads' = [loads EXCEPT ![i].pending = @ \ {f}]
                  /\ UNCHANGED <<view, uiGames, isFutureGames, gameCards>>
             ELSE IF loads[i].date \in FutureDates
             THEN StoreAndDisplay(i, TRUE)
             ELSE /\ loads' = [loads EXCEPT ![i].pending = {}, ![i].stage = "enhancing"]
                  /\ UNCHANGED <<view, uiGames, isFutureGames, gameCards>>
    /\ UNCHANGED <<pc, apiData, parsed, games, norm, fetch, rivalryData, pendingLoads,
                   options, score, ranked, calls, stars, apiVars>>

\* one of the two requests rejects: Promise.all rejects and the catch block
\* of loadCompletedGames or of handleLoadGames shows the error
FetchFails ==
    /\ \E i \in 1..Len(loads) :
          /\ loads[i].stage = "fetching"
          /\ loads[i].pending /= {}
          /\ loads' = [loads EXCEPT ![i].pending = {}, ![i].stage = "failed"]
    /\ view' = hideLoading(showError(view))
    /\ UNCHANGED <<pc, apiData, parsed, games, norm, fetch, rivalryData, pendingLoads,
                   options, score, ranked, calls, stars, apiVars,
                   uiGames, isFutureGames, gameCards>>

\* Parser.enhanceGamesWithDetailedData resolves and loadCompletedGames runs
\* to its end
EnhanceResolves ==
    /\ \E i \in 1..Len(loads) :
          /\ loads[i].stage = "enhancing"
          /\ StoreAndDisplay(i, FALSE)
    /\ UNCHANGED <<pc, apiData, parsed, games, norm, fetch, rivalryData, pendingLoads,
                   options, score, ranked, calls, stars, apiVars>>

NextOverlap ==
    \/ HandleLoadGames
    \/ FetchResolves
    \/ FetchFails
    \/ EnhanceResolves

SpecOverlap == InitOverlap /\ [][NextOverlap]_vars

AllLoadsCompleted ==
    /\ Len(loads) >= 2
    /\ \A i \in 1..Len(loads) : loads[i].stage = "done"

\* C27: when several loads were started and all of them have completed,
\* UI.games, UI.isFutureGames and the cards shown are those of the date
\* requested last, in every completion order
C27_LastRequestedDateShown ==
    AllLoadsCompleted =>
        /\ uiGames = loads[Len(loads)].date
        /\ isFutureGames = (loads[Len(loads)].date \in FutureDates)
        /\ gameCards = loads[Len(loads)].date

\* what the code guarantees: the page shows the games of one of the loads,
\* with the flag of that load
C27_SomeLoadShown ==
    AllLoadsCompleted =>
        \E i \in 1..Len(loads) :
            /\ uiGames = loads[i].date
            /\ isFutureGames = (loads[i].date \in FutureDates)
            /\ gameCards = loads[i].date


(***************************************************************************)
(* SpecCache: APICache (get, set, cleanup, getOrFetch) under overlapping   *)
(* calls and advancing time; time is counted in minutes                    *)
(***************************************************************************)

\* this.maxAge = 5 * 60 * 1000
MaxAge == 5

\* time runs until an entry stored at 0 has outlived maxAge
MaxTime == MaxAge + 1

MaxData == 2

MaxInflight == 2

\* get without the age test
getIgnoringAge(c, key, t) ==
    IF ~c[key].present THEN [data |-> Null, cache |-> c]
    ELSE [data |-> c[key].data, cache |-> c]

\* APICache.get: what it returns and the map it leaves
get(c, key, t) ==
    IF ~c[key].present THEN [data |-> Null, cache |-> c]
    ELSE IF t - c[key].timestamp > MaxAge
    THEN [data |-> Null, cache |-> [c EXCEPT ![key] = NoEntry]]
    ELSE [data |-> c[key].data, cache |-> c]

\* APICache.set
set(c, key, data, t) ==
    [c EXCEPT ![key] = [data |-> data, timestamp |-> t, present |-> TRUE]]

\* APICache.cleanup
cleanup(c, t) ==
    [k \in Keys |-> IF c[k].present /\ t - c[k].timestamp > MaxAge THEN NoEntry ELSE c[k]]

\* the pending calls without the i-th one
Settled(seq, i) == [j \in 1..(Len(seq) - 1) |-> IF j < i THEN seq[j] ELSE seq[j + 1]]

\* the fetchFn calls not yet settled, over all keys
RECURSIVE SumLen(_, _)
SumLen(f, ks) ==
    IF ks = {} THEN 0
    ELSE LET k == CHOOSE x \in ks : TRUE IN Len(f[k]) + SumLen(f, ks \ {k})

Pending == SumLen(inflight, Keys)

InitCache ==
    /\ pc = "cache"
    /\ CacheIdle
    /\ boxscoreData = NoBoxScore /\ milestones = NoMilestones
    /\ UiIdle
    /\ apiData = NoPayload /\ parsed = NoResult
    /\ games = <<>> /\ norm = <<>> /\ fetch = <<>>
    /\ rivalryData = NoRivalryData /\ pendingLoads = 0 /\ options = {}
    /\ score = 0 /\ ranked = NoResult /\ calls = <<>>
    /\ stars = 0 /\ view = AllHidden

\* cache.get(key)
Get ==
    /\ \E key \in Keys :
          LET r == get(cache, key, now)
          IN  /\ cache' = r.cache
              /\ lastGet' = [key |-> key, data |-> r.data]
    /\ pc' = "get"
    /\ UNCHANGED <<apiData, parsed, games, norm, fetch, rivalryData, pendingLoads,
                   options, score, ranked, calls, stars, view, uiVars,
                   boxscoreData, milestones, now, inflight, stored, nextData>>

\* cache.set(key, data) with a response not stored before
Set ==
    /\ nextData <= MaxData
    /\ \E key \in Keys :
          /\ cache' = set(cache, key, nextData, now)
          /\ stored' = set(stored, key, nextData, now)
    /\ nextData' = nextData + 1
    /\ pc' = "cache"
    /\ lastGet' = NoGet
    /\ UNCHANGED <<apiData, parsed, games, norm, fetch, rivalryData, pendingLoads,
                   options, score, ranked, calls, stars, view, uiVars,
                   boxscoreData, milestones, now, inflight>>

\* cache.cleanup()
Cleanup ==
    /\ cache' = cleanup(cache, now)
    /\ pc' = "cleanup"
    /\ lastGet' = NoGet
    /\ UNCHANGED <<apiData, parsed, games, norm, fetch, rivalryData, pendingLoads,
                   options, score, ranked, calls, stars, view, uiVars,
                   boxscoreData, milestones, now, inflight, stored, nextData>>

\* cache.getOrFetch(key, fetchFn) up to its await: a hit returns, a miss
\* calls fetchFn, whose promise stays pending
GetOrFetch ==
    /\ \E key \in Keys :
          LET r == get(cache, key, now)
          IN  /\ cache' = r.cache
              /\ lastGet' = [key |-> key, data |-> r.data]
              /\ IF r.data /= Null
                 THEN UNCHANGED inflight
                 ELSE /\ Pending < MaxInflight
                      /\ inflight' = [inflight EXCEPT ![key] = Append(@, now)]
    /\ pc' = "getOrFetch"
    /\ UNCHANGED <<apiData, parsed, games, norm, fetch, rivalryData, pendingLoads,
                   options, score, ranked, calls, stars, view, uiVars,
                   boxscoreData, milestones, now, stored, nextData>>

\* a pending fetchFn resolves: this.set(key, data); return data
FetchFnResolves ==
    /\ nextData <= MaxData
    /\ \E key \in Keys : \E i \in 1..Len(inflight[key]) :
          /\ inflight' = [inflight EXCEPT ![key] = Settled(@, i)]
          /\ cache' = set(cache, key, nextData, now)
          /\ stored' = set(stored, key, nextData, now)
    /\ nextData' = nextData + 1
    /\ pc' = "cache"
    /\ lastGet' = NoGet
    /\ UNCHANGED <<apiData, parsed, games, norm, fetch, rivalryData, pendingLoads,
                   options, score, ranked, calls, stars, view, uiVars,
                   boxscoreData, milestones, now>>

\* a pending fetchFn rejects: getOrFetch rejects before its set
FetchFnRejects ==
    /\ \E key \in Keys : \E i \in 1..Len(inflight[key]) :
          inflight' = [inflight EXCEPT ![key] = Settled(@, i)]
    /\ pc' = "rejected"
    /\ lastGet' = NoGet
    /\ UNCHANGED <<apiData, parsed, games, norm, fetch, rivalryData, pendingLoads,
                   options, score, ranked, calls, stars, view, uiVars,
                   boxscoreData, milestones, cache, now, stored, nextData>>

\* Date.now() advances by a minute or by maxAge
Tick ==
    /\ \E d \in {1, MaxAge} :
          /\ now + d <= MaxTime
          /\ now' = now + d
    /\ pc' = "cache"
    /\ lastGet' = NoGet
    /\ UNCHANGED <<apiData, parsed, games, norm, fetch, rivalryData, pendingLoads,
                   options, score, ranked, calls, stars, view, uiVars,
                   boxscoreData, milestones, cache, inflight, stored, nextData>>

NextCache ==
    \/ Get
    \/ Set
    \/ Cleanup
    \/ GetOrFetch
    \/ FetchFnResolves
    \/ FetchFnRejects
    \/ Tick

SpecCache == InitCache /\ [][NextCache]_vars

\* data was stored for the key and has not yet outlived maxAge
Unexpired(key) == stored[key].present /\ now - stored[key].timestamp <= MaxAge

\* the pending fetchFn calls for a key made since its last entry expired
\* (or since construction, when nothing was ever stored for it)
PendingSinceExpiry(key) ==
    {i \in 1..Len(inflight[key]) :
        stored[key].present => inflight[key][i] > stored[key].timestamp + MaxAge}

\* C28: while no unexpired entry exists for a key, overlapping getOrFetch
\* calls on that key make at most one call of fetchFn
C28_OneFetchPerKey ==
    \A key \in Keys : ~Unexpired(key) => Cardinality(PendingSinceExpiry(key)) <= 1

\* the second half of C28: a rejected fetchFn changes nothing in the cache
C28_RejectionLeavesCache ==
    [][pc' = "rejected" => cache' = cache]_vars

\* C29: get returns data only if it was stored for the key at most maxAge
\* earlier, and then the data stored last; an entry older than maxAge is not
\* returned and is deleted by the lookup, and none remains after cleanup
C29_OnlyFreshData ==
    /\ pc \in {"get", "getOrFetch"} =>
          LET key == lastGet.key
          IN  /\ lastGet.data /= Null =>
                    /\ stored[key].present
                    /\ lastGet.data = stored[key].data
                    /\ now - stored[key].timestamp <= MaxAge
              /\ (stored[key].present /\ now - stored[key].timestamp > MaxAge) =>
                    /\ lastGet.data = Null
                    /\ ~cache[key].present
    /\ pc = "cleanup" =>
          \A key \in Keys : cache[key].present => now - cache[key].timestamp <= MaxAge

\* data stored a minute more than maxAge ago is looked up, while the other
\* key still holds an entry
C29_ExpiredLookedUp ==
    /\ pc = "get"
    /\ stored[lastGet.key].present
    /\ now - stored[lastGet.key].timestamp = MaxAge + 1
    /\ lastGet.data = Null
    /\ \E key \in Keys : cache[key].present


\* the documented band of a score: 80-100 five stars, 60-79 four, 40-59
\* three, 20-39 two, 0-19 one
DocumentedStars(points) ==
    IF points >= 80 THEN 5
    ELSE IF points >= 60 THEN 4
    ELSE IF points >= 40 THEN 3
    ELSE IF points >= 20 THEN 2
    ELSE 1

\* C30: for every score from 0 to 100 the stars on a game card follow the
\* documented bands and are never more than 5 in total, the half-star symbol
\* counted
C30_CardStarsFollowBands ==
    pc = "card" =>
        /\ stars \div 2 = DocumentedStars(score)
        /\ stars <= 2 * 5

\* what the code guarantees: the full stars follow the documented bands
C30_FullStarsFollowBands ==
    pc = "card" => stars \div 2 = DocumentedStars(score)

====
